---- MODULE Spec2Model ----
(***************************************************************************)
(* A model of tc-ir: the directory router (src/src/dir.rs), the            *)
(* transaction header and claim (src/src/txn.rs) and the scalar wire codec *)
(* (src/src/scalar.rs, op.rs, tcref.rs, map.rs).                           *)
(*                                                                         *)
(* Strings are sequences of tokens: the delimiters "/", "$", "-", decimal  *)
(* digits, and indivisible words (identifiers).  "/lib/acme" is            *)
(* <<"/", "lib", "/", "acme">>.  Tagged values are tuples whose first      *)
(* element is the tag.  A BTreeMap is a sequence of <<key, value>> pairs   *)
(* kept in ascending key order with unique keys.                           *)
(***************************************************************************)
EXTENDS Integers, Sequences, FiniteSets, TLC

VARIABLES
    routes,      \* Dir: the (path, handler) items the iterator has yielded so far
    dir,         \* Dir: the entries of the root Dir under construction
    before,      \* Dir: the root entries as they were before the last Mount
    built,       \* Dir: <<"Building">>, <<"Ok">> or <<"Err", error>>
    lookup,      \* Dir: <<"Idle">> or <<"Routed", path, result>>
    hdr,         \* Txn: the TxnHeader being sent
    encSerde,    \* Txn: output of Serialize, or <<"None">>
    encDestream, \* Txn: output of IntoStream, or <<"None">>
    wire,        \* Txn: the document handed to the decoders, or <<"None">>
    wireFrom,    \* Txn: "serde", "destream", "foreign" or "none"
    outSerde,    \* Txn: result of Deserialize on wire, or <<"None">>
    outDestream, \* Txn: result of FromStream on wire, or <<"None">>
    asked,       \* Txn: <<"None">> or <<"Asked", link, required, answer>>
    scalar,      \* Scalar: the Scalar handed to the encoder
    json,        \* Scalar: the encoded document, or <<"None">>
    out,         \* Scalar: result of decoding json, or <<"None">>
    again,       \* Scalar: the decoded Scalar encoded again, or <<"None">>
    input,       \* Decode: the JSON document handed to a decoder
    asScalar,    \* Decode: <<"None">> or <<"Some", result, entries left unread>>
    asTCRef,     \* Decode: <<"None">> or <<"Some", result, entries left unread>>
    schema,      \* Library: the LibrarySchema handed to the encoder
    schemaDoc,   \* Library: the document handed to the decoder, or <<"None">>
    schemaOut,   \* Library: result of decoding schemaDoc, or <<"None">>
    pathStr,     \* Route path: the string given to parse_route_path
    segments,    \* Route path: <<"None">> or the result of parse_route_path
    overrides,   \* Handler: the verbs the handler type overrides
    called,      \* Handler: <<"None">> or <<"Called", function, handler, result>>
    relookup,     \* Handler: <<"Idle">> or <<"Routed", path, result>> after a call
    walked,      \* walk: the Scalar or OpDef the iterator was made for
    walker,      \* walk: the iterator, its kind and its fields
    yielded,     \* walk: the items next has returned so far, in order
    ended,       \* walk: next has returned None
    last,        \* walk: the answer of last_id, once asked
    subj,        \* Subject: <<"None">> or the Subject that was printed
    subjStr,     \* Subject: <<"None">> or the string given to subject_from_str
    subjOut,     \* Subject: <<"None">> or the result of subject_from_str
    txnId,       \* TxnId: <<"None">> or the TxnId that was printed
    idStr,       \* TxnId: <<"None">> or the string given to TxnId::from_str
    idOut,       \* TxnId: <<"None">> or the result of TxnId::from_str
    holder,      \* Claim: <<"None">> or the TxnHeader whose claim is encoded
    compact,     \* Claim: <<"None">> or the claim written by Serialize for Claim
    inSerde,     \* Claim: <<"None">> or the header written by Serialize for TxnHeader
    inDestream,  \* Claim: <<"None">> or the header written by IntoStream for TxnHeader
    claimOut,    \* Claim: <<"None">> or the result of Deserialize for Claim on compact
    kept,        \* Map: the entries of the Map, or <<"Moved">> once expect_empty took it
    calls        \* Map: the calls so far, each <<function, name, result, map before>>

dirVars == <<routes, dir, before, built, lookup>>
txnVars == <<hdr, encSerde, encDestream, wire, wireFrom, outSerde, outDestream, asked>>
scalarVars == <<scalar, json, out, again>>
decodeVars == <<input, asScalar, asTCRef>>
libVars == <<schema, schemaDoc, schemaOut>>
parseVars == <<pathStr, segments>>
handlerVars == <<overrides, called, relookup>>
walkVars == <<walked, walker, yielded, ended, last>>
subjVars == <<subj, subjStr, subjOut>>
idVars == <<txnId, idStr, idOut>>
claimVars == <<holder, compact, inSerde, inDestream, claimOut>>
mapVars == <<kept, calls>>
lateVars == <<walkVars, subjVars, idVars, claimVars, mapVars>>
moreVars == <<decodeVars, libVars, parseVars, handlerVars, lateVars>>
vars == <<dirVars, txnVars, scalarVars, moreVars>>
earlyVars == <<dirVars, txnVars, scalarVars, decodeVars, libVars, parseVars, handlerVars>>

----------------------------------------------------------------------------
(* Bounds of the model.                                                    *)

MaxRoutes == 3
MaxPathLen == 2

----------------------------------------------------------------------------
(* Strings and ordered maps.                                               *)

\* The order of identifiers (Id, PathSegment): string order.
WordOrder == <<"a", "b", "c", "d">>

Rank(w) == CHOOSE i \in 1..Len(WordOrder) : WordOrder[i] = w

\* s.contains(needle)
Contains(s, needle) ==
    \E i \in 0..(Len(s) - Len(needle)) :
        \A j \in 1..Len(needle) : s[i + j] = needle[j]

IsPrefix(p, q) == Len(p) <= Len(q) /\ SubSeq(q, 1, Len(p)) = p

IsProperPrefix(p, q) == Len(p) < Len(q) /\ SubSeq(q, 1, Len(p)) = p

None == <<"None">>

Some(x) == <<"Some", x>>

\* BTreeMap::contains_key
BHas(entries, k) == \E i \in 1..Len(entries) : entries[i][1] = k

\* BTreeMap::get (only where the key is present)
BGet(entries, k) == entries[CHOOSE i \in 1..Len(entries) : entries[i][1] = k][2]

\* BTreeMap::insert: replaces the value of a present key, keeps key order
BInsert(entries, k, v) ==
    IF BHas(entries, k)
    THEN [i \in 1..Len(entries) |->
            IF entries[i][1] = k THEN <<k, v>> ELSE entries[i]]
    ELSE LET below == SelectSeq(entries, LAMBDA e : Rank(e[1]) < Rank(k))
             above == SelectSeq(entries, LAMBDA e : Rank(e[1]) > Rank(k))
         IN  below \o <<<<k, v>>>> \o above

\* BTreeMap::remove
BRemove(entries, k) == SelectSeq(entries, LAMBDA e : e[1] # k)

BKeys(entries) == {entries[i][1] : i \in 1..Len(entries)}

----------------------------------------------------------------------------
(* Numbers and links as text.                                              *)

DigitChars == <<"0", "1", "2", "3", "4", "5", "6", "7", "8", "9">>

IsDigit(t) == \E i \in 1..10 : DigitChars[i] = t

DigitValue(t) == (CHOOSE i \in 1..10 : DigitChars[i] = t) - 1

\* Display for an unsigned integer
RECURSIVE ToDecimal(_)
ToDecimal(n) ==
    IF n < 10 THEN <<DigitChars[n + 1]>>
    ELSE ToDecimal(n \div 10) \o <<DigitChars[(n % 10) + 1]>>

RECURSIVE DecimalValue(_, _)
DecimalValue(s, acc) ==
    IF s = <<>> THEN acc
    ELSE DecimalValue(Tail(s), acc * 10 + DigitValue(Head(s)))

\* Every number the model writes has at most this many digits; a longer digit
\* string is out of the range of the machine integers of the model checker.
MaxDigits == 9

\* str::parse for an unsigned integer type with the given maximum
ParseUnsigned(s, max) ==
    IF s = <<>> \/ Len(s) > MaxDigits \/ \E i \in 1..Len(s) : ~IsDigit(s[i])
    THEN <<"Err", "invalid digit">>
    ELSE LET v == DecimalValue(s, 0)
         IN  IF v > max THEN <<"Err", "number too large">> ELSE <<"Ok", v>>

\* u16::MAX, the nonce of a TxnId
U16Max == 65535

\* The largest value the model gives a u64 or a u32 (both hold it).
WideMax == 999999999

Delimiters == {"/", "$", "-"}

\* The tokens str::trim removes
Whitespace == {" "}

\* A token that is one identifier (Id, PathSegment)
IsWord(t) == t \notin Delimiters \cup Whitespace

RECURSIVE PathTokens(_)
PathTokens(path) ==
    IF path = <<>> THEN <<>>
    ELSE <<"/", Head(path)>> \o PathTokens(Tail(path))

\* Path::from(path).to_string(): "/" followed by the segments joined with "/"
FormatPath(path) == IF path = <<>> THEN <<"/">> ELSE PathTokens(path)

\* Link::to_string of a host-less link: its path
LinkToString(link) == FormatPath(link)

\* PathBuf::from_str: "/" is the empty path, otherwise "/seg" repeated
PathFromStr(s) ==
    IF s = <<"/">> THEN <<"Ok", <<>>>>
    ELSE IF /\ Len(s) > 0
            /\ Len(s) % 2 = 0
            /\ \A i \in 1..Len(s) : IF i % 2 = 1 THEN s[i] = "/" ELSE IsWord(s[i])
         THEN <<"Ok", [i \in 1..(Len(s) \div 2) |-> s[2 * i]]>>
         ELSE <<"Err", "invalid path">>

\* Link::from_str, for the host-less links of the model
LinkFromStr(s) ==
    IF s # <<>> /\ s[1] = "/" THEN PathFromStr(s) ELSE <<"Err", "invalid link">>

----------------------------------------------------------------------------
(* JSON documents: <<"null">>, <<"bool", b>>, <<"num", n>>, <<"str", s>>,   *)
(* <<"seq", items>> and <<"obj", entries>>, entries being <<key, value>>    *)
(* pairs in document order.                                                *)

JNull == <<"null">>

JBool(b) == <<"bool", b>>

JNum(n) == <<"num", n>>

JStr(s) == <<"str", s>>

JSeq(items) == <<"seq", items>>

JObj(entries) == <<"obj", entries>>

Ok(x) == <<"Ok", x>>

Err(msg) == <<"Err", msg>>

IsOk(r) == r[1] = "Ok"

----------------------------------------------------------------------------
(* The transaction header, src/src/txn.rs.                                 *)

\* [u8; 32]
TraceLen == 32

\* TxnId::from_parts: trace: [0u8; 32]
ZeroTrace == [i \in 1..TraceLen |-> 0]

\* TxnId::from_parts
TxnId_from_parts(timestamp, nonce) ==
    [timestamp |-> timestamp, nonce |-> nonce, trace |-> ZeroTrace]

\* TxnId::with_trace
with_trace(id, trace) == [id EXCEPT !.trace = trace]

\* impl Display for TxnId: "{timestamp}-{nonce}"
TxnId_to_string(id) == ToDecimal(id.timestamp) \o <<"-">> \o ToDecimal(id.nonce)

\* str::split_once('-')
SplitOnceDash(s) ==
    IF \E i \in 1..Len(s) : s[i] = "-"
    THEN LET i == CHOOSE k \in 1..Len(s) :
                      s[k] = "-" /\ \A j \in 1..(k - 1) : s[j] # "-"
         IN  Some(<<SubSeq(s, 1, i - 1), SubSeq(s, i + 1, Len(s))>>)
    ELSE None

\* impl FromStr for TxnId reading the nonce as a wider integer
TxnId_from_str_wide(s) ==
    LET split == SplitOnceDash(s)
    IN  IF split = None
        THEN Err("transaction IDs must look like <timestamp>-<nonce>")
        ELSE LET ts == ParseUnsigned(split[2][1], WideMax)
                 nonce == ParseUnsigned(split[2][2], WideMax)
             IN  IF ~IsOk(ts) THEN Err("invalid TxnId timestamp")
                 ELSE IF ~IsOk(nonce) THEN Err("invalid TxnId nonce (expected u16)")
                 ELSE Ok(TxnId_from_parts(ts[2], nonce[2]))

\* impl FromStr for TxnId
TxnId_from_str(s) ==
    LET split == SplitOnceDash(s)
    IN  IF split = None
        THEN Err("transaction IDs must look like <timestamp>-<nonce>")
        ELSE LET ts == ParseUnsigned(split[2][1], WideMax)
                 nonce == ParseUnsigned(split[2][2], U16Max)
             IN  IF ~IsOk(ts) THEN Err("invalid TxnId timestamp")
                 ELSE IF ~IsOk(nonce) THEN Err("invalid TxnId nonce (expected u16)")
                 ELSE Ok(TxnId_from_parts(ts[2], nonce[2]))

\* Claim::new
Claim_new(link, mask) == [link |-> link, mask |-> mask]

\* TxnHeader::new
TxnHeader_new(id, timestamp, claim) == [id |-> id, timestamp |-> timestamp, claim |-> claim]

\* have & need on unsigned integers
RECURSIVE BitAnd(_, _)
BitAnd(a, b) ==
    IF a = 0 \/ b = 0 THEN 0
    ELSE (a % 2) * (b % 2) + 2 * BitAnd(a \div 2, b \div 2)

\* allows with "any required bit granted" in place of "every required bit granted"
allows_any(claim, link, required) ==
    IF claim.link # link THEN FALSE
    ELSE BitAnd(claim.mask, required) # 0 \/ required = 0

\* Claim::allows
allows(claim, link, required) ==
    IF claim.link # link THEN FALSE
    ELSE LET have == claim.mask
             need == required
         IN  BitAnd(have, need) = need

\* Serialize with the claim mask narrowed to 16 bits, as Serialize for Claim does
Serialize_narrow(h) ==
    JObj(<< <<<<"id">>, JStr(TxnId_to_string(h.id))>>,
            <<<<"timestamp">>, JNum(h.timestamp)>>,
            <<<<"claim">>, JSeq(<<JStr(LinkToString(h.claim.link)),
                                  JNum(h.claim.mask % (U16Max + 1))>>)>> >>)

\* impl Serialize for TxnHeader
Serialize(h) ==
    JObj(<< <<<<"id">>, JStr(TxnId_to_string(h.id))>>,
            <<<<"timestamp">>, JNum(h.timestamp)>>,
            <<<<"claim">>, JSeq(<<JStr(LinkToString(h.claim.link)),
                                  JNum(h.claim.mask)>>)>> >>)

\* impl IntoStream for TxnHeader
into_stream(h) ==
    JObj(<< <<<<"id">>, JStr(TxnId_to_string(h.id))>>,
            <<<<"timestamp">>, JNum(h.timestamp)>>,
            <<<<"claim">>, JSeq(<<JStr(LinkToString(h.claim.link)),
                                  JNum(h.claim.mask)>>)>> >>)

\* impl Serialize for Claim: (link.to_string(), u32::from(mask) as u16)
Claim_serialize(claim) ==
    JSeq(<<JStr(LinkToString(claim.link)), JNum(claim.mask % (U16Max + 1))>>)

\* impl Deserialize for Claim: <(String, u16)>::deserialize, then Link::from_str
Claim_deserialize(value) ==
    IF ~(value[1] = "seq" /\ Len(value[2]) = 2) THEN Err("invalid length")
    ELSE IF value[2][1][1] # "str" THEN Err("expected a string")
    ELSE IF ~(value[2][2][1] = "num" /\ value[2][2][2] \in 0..U16Max)
         THEN Err("expected a u16")
    ELSE LET link == LinkFromStr(value[2][1][2])
         IN  IF ~IsOk(link) THEN Err("invalid link")
             ELSE Ok(Claim_new(link[2], value[2][2][2]))

\* next_value::<(String, u32)> followed by Link::from_str and Claim::new
ClaimFromPair(value) ==
    IF ~(value[1] = "seq" /\ Len(value[2]) = 2) THEN Err("invalid length")
    ELSE IF value[2][1][1] # "str" THEN Err("expected a string")
    ELSE IF ~(value[2][2][1] = "num" /\ value[2][2][2] \in 0..WideMax)
         THEN Err("expected a u32")
    ELSE LET link == LinkFromStr(value[2][1][2])
         IN  IF ~IsOk(link) THEN Err("invalid link")
             ELSE Ok(Claim_new(link[2], value[2][2][2]))

\* HeaderVisitor::visit_map of impl Deserialize for TxnHeader
RECURSIVE serde_visit_map(_, _, _, _)
serde_visit_map(entries, id, timestamp, claim) ==
    IF entries = <<>>
    THEN IF id = None THEN Err("missing id")
         ELSE IF timestamp = None THEN Err("missing timestamp")
         ELSE IF claim = None THEN Err("missing claim")
         ELSE Ok(TxnHeader_new(id[2], timestamp[2], claim[2]))
    ELSE LET key == Head(entries)[1]
             value == Head(entries)[2]
             rest == Tail(entries)
         IN  IF key = <<"id">>
             THEN IF value[1] # "str" THEN Err("expected a string")
                  ELSE LET parsed == TxnId_from_str(value[2])
                       IN  IF ~IsOk(parsed) THEN parsed
                           ELSE serde_visit_map(rest, Some(parsed[2]), timestamp, claim)
             ELSE IF key = <<"timestamp">>
             THEN IF ~(value[1] = "num" /\ value[2] \in 0..WideMax)
                  THEN Err("expected a u64")
                  ELSE serde_visit_map(rest, id, Some(value[2]), claim)
             ELSE IF key = <<"claim">>
             THEN LET parsed == ClaimFromPair(value)
                  IN  IF ~IsOk(parsed) THEN parsed
                      ELSE serde_visit_map(rest, id, timestamp, Some(parsed[2]))
             ELSE serde_visit_map(rest, id, timestamp, claim)

\* impl Deserialize for TxnHeader
Deserialize(doc) ==
    IF doc[1] # "obj" THEN Err("expected a transaction header map")
    ELSE serde_visit_map(doc[2], None, None, None)

\* HeaderVisitor::visit_map of impl FromStream for TxnHeader
RECURSIVE destream_visit_map(_, _, _, _)
destream_visit_map(entries, id, timestamp, claim) ==
    IF entries = <<>>
    THEN IF id = None THEN Err("missing id")
         ELSE IF timestamp = None THEN Err("missing timestamp")
         ELSE IF claim = None THEN Err("missing claim")
         ELSE Ok(TxnHeader_new(id[2], timestamp[2], claim[2]))
    ELSE LET key == Head(entries)[1]
             value == Head(entries)[2]
             rest == Tail(entries)
         IN  IF key = <<"id">>
             THEN IF value[1] # "str" THEN Err("expected a string")
                  ELSE LET parsed == TxnId_from_str(value[2])
                       IN  IF ~IsOk(parsed) THEN parsed
                           ELSE destream_visit_map(rest, Some(parsed[2]), timestamp, claim)
             ELSE IF key = <<"timestamp">>
             THEN IF ~(value[1] = "num" /\ value[2] \in 0..WideMax)
                  THEN Err("expected a u64")
                  ELSE destream_visit_map(rest, id, Some(value[2]), claim)
             ELSE IF key = <<"claim">>
             THEN LET parsed == ClaimFromPair(value)
                  IN  IF ~IsOk(parsed) THEN parsed
                      ELSE destream_visit_map(rest, id, timestamp, Some(parsed[2]))
             ELSE destream_visit_map(rest, id, timestamp, claim)

\* impl FromStream for TxnHeader
from_stream(doc) ==
    IF doc[1] # "obj" THEN Err("expected a transaction header map")
    ELSE destream_visit_map(doc[2], None, None, None)

----------------------------------------------------------------------------
(* The directory router, src/src/dir.rs.                                   *)

Segments == {"a", "b"}

\* The handlers are the values moved into from_routes: the i-th item yielded owns
\* handler i.  H is opaque to the router (no Eq, no Clone is asked of it).
HandlerAt(i) == i

RECURSIVE SeqsUpTo(_, _)
SeqsUpTo(S, n) ==
    IF n = 0 THEN {<<>>}
    ELSE LET shorter == SeqsUpTo(S, n - 1)
         IN  shorter \cup {Append(s, x) : s \in {t \in shorter : Len(t) = n - 1}, x \in S}

Paths == SeqsUpTo(Segments, MaxPathLen)

BadRequest(msg) == <<"BadRequest", msg>>

NoError == <<"NoError">>

\* Dir::new
NewDir == <<>>

\* insert_segments with the occupied entry overwritten instead of reported
RECURSIVE insert_segments_overwrite(_, _, _)
insert_segments_overwrite(entries, path, handler) ==
    LET head == Head(path)
        tail == Tail(path)
    IN  IF tail = <<>>
        THEN [entries |-> BInsert(entries, head, <<"Handler", handler>>),
              err |-> NoError]
        ELSE LET made == IF BHas(entries, head) THEN entries
                         ELSE BInsert(entries, head, <<"Dir", NewDir>>)
                 entry == BGet(made, head)
             IN  IF entry[1] = "Dir"
                 THEN LET sub == insert_segments_overwrite(entry[2], tail, handler)
                      IN  [entries |-> BInsert(made, head, <<"Dir", sub.entries>>),
                           err |-> sub.err]
                 ELSE [entries |-> made,
                       err |-> BadRequest(<<"cannot", "mount", "handler", "below", "a",
                                            "leaf", "handler", "at">> \o FormatPath(path))]

\* insert_segments that makes the directory of the head segment before it
\* looks at what the segment holds, and reports the leaf handler it replaced
RECURSIVE insert_segments_eager(_, _, _)
insert_segments_eager(entries, path, handler) ==
    LET head == Head(path)
        tail == Tail(path)
    IN  IF tail = <<>>
        THEN IF ~BHas(entries, head)
             THEN [entries |-> BInsert(entries, head, <<"Handler", handler>>),
                   err |-> NoError]
             ELSE [entries |-> entries,
                   err |-> BadRequest(<<"handler", "already", "mounted", "at", "path">>
                                      \o FormatPath(path))]
        ELSE LET made == IF BHas(entries, head) THEN entries
                         ELSE BInsert(entries, head, <<"Dir", NewDir>>)
                 entry == BGet(made, head)
             IN  IF entry[1] = "Dir"
                 THEN LET sub == insert_segments_eager(entry[2], tail, handler)
                      IN  [entries |-> BInsert(made, head, <<"Dir", sub.entries>>),
                           err |-> sub.err]
                 ELSE [entries |-> BInsert(made, head, <<"Dir", NewDir>>),
                       err |-> BadRequest(<<"cannot", "mount", "handler", "below", "a",
                                            "leaf", "handler", "at">> \o FormatPath(path))]

\* insert_segments with a leaf handler on the way turned into a directory
RECURSIVE insert_segments_below(_, _, _)
insert_segments_below(entries, path, handler) ==
    LET head == Head(path)
        tail == Tail(path)
    IN  IF tail = <<>>
        THEN IF ~BHas(entries, head)
             THEN [entries |-> BInsert(entries, head, <<"Handler", handler>>),
                   err |-> NoError]
             ELSE [entries |-> entries,
                   err |-> BadRequest(<<"handler", "already", "mounted", "at", "path">>
                                      \o FormatPath(path))]
        ELSE LET made == IF BHas(entries, head) /\ BGet(entries, head)[1] = "Dir"
                         THEN entries
                         ELSE BInsert(entries, head, <<"Dir", NewDir>>)
                 entry == BGet(made, head)
                 sub == insert_segments_below(entry[2], tail, handler)
             IN  [entries |-> BInsert(made, head, <<"Dir", sub.entries>>),
                  err |-> sub.err]

\* insert_segments with insert in place of or_insert_with: a fresh directory
\* replaces whatever the head segment held
RECURSIVE insert_segments_fresh(_, _, _)
insert_segments_fresh(entries, path, handler) ==
    LET head == Head(path)
        tail == Tail(path)
    IN  IF tail = <<>>
        THEN IF ~BHas(entries, head)
             THEN [entries |-> BInsert(entries, head, <<"Handler", handler>>),
                   err |-> NoError]
             ELSE [entries |-> entries,
                   err |-> BadRequest(<<"handler", "already", "mounted", "at", "path">>
                                      \o FormatPath(path))]
        ELSE LET sub == insert_segments_fresh(NewDir, tail, handler)
             IN  [entries |-> BInsert(entries, head, <<"Dir", sub.entries>>),
                  err |-> sub.err]

\* Dir::insert_segments: the entries after the call and the error, if any
RECURSIVE insert_segments(_, _, _)
insert_segments(entries, path, handler) ==
    LET head == Head(path)
        tail == Tail(path)
    IN  IF tail = <<>>
        THEN IF ~BHas(entries, head)
             THEN [entries |-> BInsert(entries, head, <<"Handler", handler>>),
                   err |-> NoError]
             ELSE [entries |-> entries,
                   err |-> BadRequest(<<"handler", "already", "mounted", "at", "path">>
                                      \o FormatPath(path))]
        ELSE LET made == IF BHas(entries, head) THEN entries
                         ELSE BInsert(entries, head, <<"Dir", NewDir>>)
                 entry == BGet(made, head)
             IN  IF entry[1] = "Dir"
                 THEN LET sub == insert_segments(entry[2], tail, handler)
                      IN  [entries |-> BInsert(made, head, <<"Dir", sub.entries>>),
                           err |-> sub.err]
                 ELSE [entries |-> made,
                       err |-> BadRequest(<<"cannot", "mount", "handler", "below", "a",
                                            "leaf", "handler", "at">> \o FormatPath(path))]

\* route_path answering with the first handler met on the way (prefix dispatch)
RECURSIVE route_path_prefix(_, _)
route_path_prefix(entries, path) ==
    IF path = <<>> THEN None
    ELSE LET head == Head(path)
             tail == Tail(path)
         IN  IF ~BHas(entries, head) THEN None
             ELSE LET entry == BGet(entries, head)
                  IN  IF entry[1] = "Handler" THEN Some(entry[2])
                      ELSE route_path_prefix(entry[2], tail)

\* Dir::route_path
RECURSIVE route_path(_, _)
route_path(entries, path) ==
    IF path = <<>> THEN None
    ELSE LET head == Head(path)
             tail == Tail(path)
         IN  IF ~BHas(entries, head) THEN None
             ELSE LET entry == BGet(entries, head)
                  IN  IF entry[1] = "Handler"
                      THEN IF tail = <<>> THEN Some(entry[2]) ELSE None
                      ELSE route_path(entry[2], tail)

\* the loop body with an empty path skipped instead of rejected
from_routes_step_skip(entries, path, handler) ==
    IF path = <<>>
    THEN [entries |-> entries, err |-> NoError]
    ELSE insert_segments(entries, path, handler)

\* One iteration of the loop of Dir::from_routes: the state after it
from_routes_step(entries, path, handler) ==
    IF path = <<>>
    THEN [entries |-> entries,
          err |-> BadRequest(<<"cannot", "mount", "handler", "at", "root">>)]
    ELSE insert_segments(entries, path, handler)

\* Dir::from_routes on a whole list: <<"Ok", entries>> or <<"Err", error>>
RECURSIVE from_routes_from(_, _)
from_routes_from(entries, list) ==
    IF list = <<>> THEN <<"Ok", entries>>
    ELSE LET step == from_routes_step(entries, Head(list)[1], Head(list)[2])
         IN  IF step.err # NoError THEN <<"Err", step.err>>
             ELSE from_routes_from(step.entries, Tail(list))

from_routes(list) == from_routes_from(NewDir, list)

DirIdle ==
    /\ routes = <<>>
    /\ dir = NewDir
    /\ before = NewDir
    /\ built = <<"Building">>
    /\ lookup = <<"Idle">>

\* from_routes pulls the next (path, handler) from its iterator and mounts it
Mount(path) ==
    /\ built = <<"Building">>
    /\ Len(routes) < MaxRoutes
    /\ LET handler == HandlerAt(Len(routes) + 1)
           step == from_routes_step(dir, path, handler)
       IN  /\ routes' = Append(routes, <<path, handler>>)
           /\ before' = dir
           /\ dir' = step.entries
           /\ built' = IF step.err = NoError THEN <<"Building">> ELSE <<"Err", step.err>>
    /\ UNCHANGED <<lookup, txnVars, scalarVars, moreVars>>

\* the iterator is exhausted: from_routes returns Ok(dir)
Finish ==
    /\ built = <<"Building">>
    /\ built' = <<"Ok">>
    /\ UNCHANGED <<routes, dir, before, lookup, txnVars, scalarVars, moreVars>>

\* The paths looked up: the mountable ones and their extensions by one segment.
LookupPaths == SeqsUpTo(Segments, MaxPathLen + 1)

\* Route::route on the Dir that from_routes returned
RouteLookup(path) ==
    /\ built = <<"Ok">>
    /\ lookup = <<"Idle">>
    /\ lookup' = <<"Routed", path, route_path(dir, path)>>
    /\ UNCHANGED <<routes, dir, before, built, txnVars, scalarVars, moreVars>>

----------------------------------------------------------------------------
(* Placeholders of the other components while the router runs.            *)

TxnIdle ==
    /\ hdr = None
    /\ encSerde = None
    /\ encDestream = None
    /\ wire = None
    /\ wireFrom = "none"
    /\ outSerde = None
    /\ outDestream = None
    /\ asked = None

ScalarIdle ==
    /\ scalar = None
    /\ json = None
    /\ out = None
    /\ again = None

DecodeIdle ==
    /\ input = None
    /\ asScalar = None
    /\ asTCRef = None

LibraryIdle ==
    /\ schema = None
    /\ schemaDoc = None
    /\ schemaOut = None

ParseIdle ==
    /\ pathStr = None
    /\ segments = None

HandlerIdle ==
    /\ overrides = {}
    /\ called = None
    /\ relookup = <<"Idle">>

WalkIdle ==
    /\ walked = None
    /\ walker = None
    /\ yielded = <<>>
    /\ ended = FALSE
    /\ last = None

SubjectIdle ==
    /\ subj = None
    /\ subjStr = None
    /\ subjOut = None

TxnIdIdle ==
    /\ txnId = None
    /\ idStr = None
    /\ idOut = None

ClaimIdle ==
    /\ holder = None
    /\ compact = None
    /\ inSerde = None
    /\ inDestream = None
    /\ claimOut = None

MapIdle ==
    /\ kept = <<>>
    /\ calls = <<>>

LateIdle ==
    /\ MapIdle
    /\ WalkIdle
    /\ SubjectIdle
    /\ TxnIdIdle
    /\ ClaimIdle

MoreIdle ==
    /\ LateIdle
    /\ DecodeIdle
    /\ LibraryIdle
    /\ ParseIdle
    /\ HandlerIdle

InitDir == DirIdle /\ TxnIdle /\ ScalarIdle /\ MoreIdle

NextDir ==
    \/ \E path \in Paths : Mount(path)
    \/ Finish
    \/ \E path \in LookupPaths : RouteLookup(path)

SpecDir == InitDir /\ [][NextDir]_vars

----------------------------------------------------------------------------
(* Properties of the router.                                               *)

Mounted == Len(routes)

LastPath == routes[Mounted][1]

Failed == built[1] = "Err"

FailedBadRequest == built[1] = "Err" /\ built[2][1] = "BadRequest"

Message == built[2][2]

AlreadyMounted == <<"already", "mounted">>

BelowLeaf == <<"below", "a", "leaf", "handler">>

HasDuplicatePath(list) ==
    \E i, j \in 1..Len(list) : i < j /\ list[i][1] = list[j][1]

HasPrefixPair(list) ==
    \E i, j \in 1..Len(list) : i # j /\ IsProperPrefix(list[i][1], list[j][1])

\* The paths of the Handler leaves of a tree, read off its structure.
RECURSIVE HandlerPaths(_)
HandlerPaths(entries) ==
    UNION {LET e == entries[i]
           IN  IF e[2][1] = "Handler" THEN {<<e[1]>>}
               ELSE {<<e[1]>> \o rest : rest \in HandlerPaths(e[2][2])}
           : i \in 1..Len(entries)}

\* C4: a route list holding the same path twice makes from_routes fail with
\* BadRequest, wherever the two entries stand and whatever else is mounted; when
\* the second occurrence is the route that is rejected, the message contains
\* "already mounted".
C4_DuplicatePathRejected ==
    /\ HasDuplicatePath(routes) => FailedBadRequest
    /\ (Failed /\ \E i \in 1..(Mounted - 1) : routes[i][1] = LastPath)
           => Contains(Message, AlreadyMounted)

C4_Witness ==
    /\ Mounted = 3
    /\ routes[1][1] = routes[3][1]
    /\ routes[2][1] # routes[1][1]
    /\ Len(routes[1][1]) = 2
    /\ FailedBadRequest
    /\ Contains(Message, AlreadyMounted)

\* C5: a route list holding a path p and a path q that p properly prefixes makes
\* from_routes fail with BadRequest in either order: q after p is rejected as a
\* mount below a leaf handler, p after q because the entry at p is occupied by a
\* directory; and no returned Dir has a handler below another handler.
C5_PrefixConflictRejected ==
    /\ HasPrefixPair(routes) => FailedBadRequest
    /\ (Failed /\ \E i \in 1..(Mounted - 1) : IsProperPrefix(routes[i][1], LastPath))
           => Contains(Message, BelowLeaf)
    /\ (Failed /\ LastPath # <<>>
               /\ \E i \in 1..(Mounted - 1) : IsProperPrefix(LastPath, routes[i][1]))
           => /\ Contains(Message, AlreadyMounted)
              /\ LastPath \notin HandlerPaths(before)
              /\ \E q \in HandlerPaths(before) : IsProperPrefix(LastPath, q)
    /\ built = <<"Ok">> =>
           \A p, q \in HandlerPaths(dir) : ~IsProperPrefix(p, q)

C5_Witness ==
    /\ Mounted = 2
    /\ Len(routes[1][1]) = 2
    /\ IsProperPrefix(routes[2][1], routes[1][1])
    /\ routes[2][1] # <<>>
    /\ FailedBadRequest
    /\ Contains(Message, AlreadyMounted)

\* C6: when from_routes rejects a route for a conflict (already mounted, or below
\* a leaf handler), the message contains the text of the complete path that was
\* given for the rejected route, at every depth of the conflict.
C6_MessageNamesFullPath ==
    (Failed /\ (Contains(Message, AlreadyMounted) \/ Contains(Message, BelowLeaf)))
        => Contains(Message, FormatPath(LastPath))

\* C7: an empty path is rejected with BadRequest "cannot mount handler at root"
\* and nothing is inserted; on every returned Dir route of the empty path is None.
C7_RootNeverMounted ==
    /\ (Mounted > 0 /\ LastPath = <<>>)
           => /\ built = <<"Err", BadRequest(<<"cannot", "mount", "handler", "at", "root">>)>>
              /\ dir = before
    /\ built = <<"Ok">> => route_path(dir, <<>>) = None
    /\ (lookup[1] = "Routed" /\ lookup[2] = <<>>) => lookup[3] = None

C7_Witness ==
    /\ Mounted = 2
    /\ LastPath = <<>>
    /\ routes[1][1] # <<>>
    /\ FailedBadRequest
    /\ dir # NewDir

C7_WitnessRootLookup ==
    /\ built = <<"Ok">>
    /\ Mounted = 2
    /\ lookup = <<"Routed", <<>>, None>>

\* What a Dir built from the list must answer for path p.
Expected(list, p) ==
    IF \E i \in 1..Len(list) : list[i][1] = p
    THEN Some(list[CHOOSE i \in 1..Len(list) : list[i][1] = p][2])
    ELSE None

\* C8: on a Dir built by a successful from_routes(R), route(p) is the handler h
\* exactly when (p, h) is in R, and None for every proper prefix of a mounted
\* path, every extension of one and every path not mounted.
C8_ExactMatchOnly ==
    lookup[1] = "Routed" =>
        /\ lookup[3] = Expected(routes, lookup[2])
        /\ (\E i \in 1..Mounted : IsProperPrefix(lookup[2], routes[i][1])
                               \/ IsProperPrefix(routes[i][1], lookup[2]))
               => lookup[3] = None

C8_Witness ==
    /\ Mounted = 2
    /\ routes[1][1] = <<"b">>
    /\ routes[2][1] = <<"a", "b">>
    /\ lookup = <<"Routed", <<"a", "b">>, Some(HandlerAt(2))>>

C8_WitnessPrefix ==
    /\ Mounted = 1
    /\ routes[1][1] = <<"a", "b">>
    /\ lookup = <<"Routed", <<"a">>, None>>

Perms(n) == {f \in [1..n -> 1..n] : \A i, j \in 1..n : f[i] = f[j] => i = j}

Reorder(list, f) == [i \in 1..Len(list) |-> list[f[i]]]

\* C9: for any two orderings of the same routes, from_routes fails for both or
\* succeeds for both, and when it succeeds route(p) is the same for every path p.
C9_OrderIndependent ==
    (built # <<"Building">> /\ lookup = <<"Idle">>) =>
        \A f \in Perms(Mounted) :
            LET other == from_routes(Reorder(routes, f))
            IN  /\ (other[1] = "Ok") <=> (built = <<"Ok">>)
                /\ built = <<"Ok">> =>
                       \A p \in LookupPaths : route_path(other[2], p) = route_path(dir, p)

C9_Witness ==
    /\ built = <<"Ok">>
    /\ Mounted = 3
    /\ \E i \in 1..3 : Len(routes[i][1]) = 2
    /\ \E i \in 1..3 : Len(routes[i][1]) = 1

C9_WitnessFailed ==
    /\ Failed
    /\ Mounted = 3
    /\ IsProperPrefix(routes[1][1], routes[3][1])

----------------------------------------------------------------------------
(* Transaction headers on the wire.                                        *)

TxnTimes == {7, 123456789}

Nonces == {1, U16Max}

\* with_trace takes any 32 bytes
Traces == {ZeroTrace, [ZeroTrace EXCEPT ![1] = 171], [ZeroTrace EXCEPT ![TraceLen] = 255]}

HeaderTimes == {0, 7}

ClaimLinks == {<<"lib">>, <<"lib", "acme">>}

\* Mode values: no bit, single classes, all of rwxrwxrwx, and bits above the 16th
Masks == {0, 4, 5, 448, 511, 65541}

TxnIds == {with_trace(TxnId_from_parts(t, n), tr) : t \in TxnTimes, n \in Nonces, tr \in Traces}

Headers ==
    {TxnHeader_new(id, t, Claim_new(l, m)) :
        id \in TxnIds, t \in HeaderTimes, l \in ClaimLinks, m \in Masks}

\* Documents a peer may send that no encoder of this crate wrote
Foreign(doc) ==
    LET e == doc[2]
    IN  {JObj(<<e[2], e[3]>>), JObj(<<e[1], e[3]>>), JObj(<<e[1], e[2]>>),
         JObj(<<e[3], e[2], e[1]>>),
         JObj(Append(e, <<<<"extra">>, JNull>>)),
         JObj(<<<<<<"extra">>, JBool(TRUE)>>>> \o e),
         JObj(Append(e, <<<<"timestamp">>, JNum(e[2][2][2] + 1)>>)),
         JObj(<<<<<<"id">>, JStr(<<"7">>)>>, e[2], e[3]>>),
         JObj(<<<<<<"id">>, JStr(<<"7", "-", "6", "5", "5", "3", "6">>)>>, e[2], e[3]>>),
         JObj(<<<<<<"id">>, JNum(7)>>, e[2], e[3]>>),
         JObj(<<e[1], e[2], <<<<"claim">>, JSeq(<<e[3][2][2][1]>>)>>>>),
         JObj(<<e[1], e[2], <<<<"claim">>, JSeq(<<JStr(<<"lib">>), e[3][2][2][2]>>)>>>>),
         JSeq(<<>>)}

\* serde_json::to_value(&header)
SerializeHeader ==
    /\ asked = None
    /\ encSerde = None
    /\ encSerde' = Some(Serialize(hdr))
    /\ UNCHANGED <<hdr, encDestream, wire, wireFrom, outSerde, outDestream, asked,
                   dirVars, scalarVars, moreVars>>

\* destream_json::encode(header)
EncodeHeader ==
    /\ asked = None
    /\ encDestream = None
    /\ encDestream' = Some(into_stream(hdr))
    /\ UNCHANGED <<hdr, encSerde, wire, wireFrom, outSerde, outDestream, asked,
                   dirVars, scalarVars, moreVars>>

\* The document reaches the receiver as the serde encoder wrote it
SendSerde ==
    /\ wire = None
    /\ encSerde # None
    /\ wire' = encSerde
    /\ wireFrom' = "serde"
    /\ UNCHANGED <<hdr, encSerde, encDestream, outSerde, outDestream, asked,
                   dirVars, scalarVars, moreVars>>

\* The document reaches the receiver as the destream encoder wrote it
SendDestream ==
    /\ wire = None
    /\ encDestream # None
    /\ wire' = encDestream
    /\ wireFrom' = "destream"
    /\ UNCHANGED <<hdr, encSerde, encDestream, outSerde, outDestream, asked,
                   dirVars, scalarVars, moreVars>>

\* The receiver is handed a document written by another implementation
SendForeign(doc) ==
    /\ wire = None
    /\ wire' = Some(doc)
    /\ wireFrom' = "foreign"
    /\ UNCHANGED <<hdr, encSerde, encDestream, outSerde, outDestream, asked,
                   dirVars, scalarVars, moreVars>>

\* serde_json::from_value::<TxnHeader>
DeserializeHeader ==
    /\ wire # None
    /\ outSerde = None
    /\ outSerde' = Some(Deserialize(wire[2]))
    /\ UNCHANGED <<hdr, encSerde, encDestream, wire, wireFrom, outDestream, asked,
                   dirVars, scalarVars, moreVars>>

\* destream_json::try_decode::<TxnHeader>
DecodeHeader ==
    /\ wire # None
    /\ outDestream = None
    /\ outDestream' = Some(from_stream(wire[2]))
    /\ UNCHANGED <<hdr, encSerde, encDestream, wire, wireFrom, outSerde, asked,
                   dirVars, scalarVars, moreVars>>

\* header.claim().allows(link, required)
Allows(link, required) ==
    /\ asked = None
    /\ encSerde = None
    /\ encDestream = None
    /\ asked' = <<"Asked", link, required, allows(hdr.claim, link, required)>>
    /\ UNCHANGED <<hdr, encSerde, encDestream, wire, wireFrom, outSerde, outDestream,
                   dirVars, scalarVars, moreVars>>

InitTxn ==
    /\ hdr \in Headers
    /\ encSerde = None
    /\ encDestream = None
    /\ wire = None
    /\ wireFrom = "none"
    /\ outSerde = None
    /\ outDestream = None
    /\ asked = None
    /\ DirIdle
    /\ ScalarIdle
    /\ MoreIdle

NextTxn ==
    \/ SerializeHeader
    \/ EncodeHeader
    \/ SendSerde
    \/ SendDestream
    \/ \E doc \in Foreign(into_stream(hdr)) : SendForeign(doc)
    \/ DecodeHeader
    \/ DeserializeHeader
    \/ \E link \in ClaimLinks, required \in Masks : Allows(link, required)

SpecTxn == InitTxn /\ [][NextTxn]_vars

----------------------------------------------------------------------------
(* Properties of the transaction header.                                   *)

SameResult(a, b) == a[1] = b[1] /\ a[2] = b[2]

Untouched == wireFrom \in {"serde", "destream"}

\* C2: whatever the TxnId (timestamp, nonce, trace), header timestamp and claim
\* of a header, decoding its encoding succeeds with a header equal to it, through
\* the serde codec and through the destream codec.
C2_HeaderRoundTrip ==
    /\ (wireFrom = "serde" /\ outSerde # None) =>
           SameResult(outSerde[2], Ok(hdr))
    /\ (wireFrom = "destream" /\ outDestream # None) =>
           SameResult(outDestream[2], Ok(hdr))

\* What a decoder can return at best: the header with the trace of from_parts
Untraced(h) == [h EXCEPT !.id = TxnId_from_parts(h.id.timestamp, h.id.nonce)]

\* C3: the two encoders of a header write the same JSON object, which has the
\* keys id, timestamp, claim in this order, the id in its string form, the
\* timestamp as a number and the claim as the pair of its link in string form
\* and its whole mask; the two decoders return the same result on a document
\* whichever encoder wrote it.
C3_CodecsAgree ==
    /\ (encSerde # None /\ encDestream # None) => encSerde = encDestream
    /\ \A enc \in {encSerde, encDestream} :
           enc # None =>
               LET doc == enc[2]
               IN  /\ doc[1] = "obj"
                   /\ Len(doc[2]) = 3
                   /\ doc[2][1][1] = <<"id">>
                   /\ doc[2][2][1] = <<"timestamp">>
                   /\ doc[2][3][1] = <<"claim">>
                   /\ doc[2][1][2] =
                          JStr(ToDecimal(hdr.id.timestamp) \o <<"-">> \o ToDecimal(hdr.id.nonce))
                   /\ doc[2][2][2] = JNum(hdr.timestamp)
                   /\ doc[2][3][2] =
                          JSeq(<<JStr(PathTokens(hdr.claim.link)), JNum(hdr.claim.mask)>>)
    /\ (Untouched /\ outSerde # None /\ outDestream # None) =>
           /\ SameResult(outSerde[2], outDestream[2])
           /\ SameResult(outSerde[2], Ok(Untraced(hdr)))

\* Both encoders ran on a header whose mask has bits above the 16th, the document
\* of one of them went over the wire, and both decoders ran on it.
C3_Witness ==
    /\ encSerde # None
    /\ encDestream # None
    /\ hdr.claim.mask > U16Max
    /\ wireFrom = "serde"
    /\ outSerde # None
    /\ outDestream # None
    /\ IsOk(outDestream[2])

C3_WitnessDestream ==
    /\ wireFrom = "destream"
    /\ outSerde # None
    /\ outDestream # None
    /\ IsOk(outSerde[2])

RECURSIVE Bits(_)
Bits(n) == IF n = 0 THEN <<>> ELSE <<n % 2>> \o Bits(n \div 2)

\* every bit set in need is set in have
Covers(have, need) ==
    /\ Len(Bits(need)) <= Len(Bits(have))
    /\ \A i \in 1..Len(Bits(need)) : Bits(need)[i] = 1 => Bits(have)[i] = 1

\* C10: allows(link', need) is true exactly when link' is the link of the claim
\* and every bit of need is a bit of the mask of the claim; so it is false for
\* any other link and true for need = 0 on the link of the claim.
C10_AllowsIffLinkAndMask ==
    asked[1] = "Asked" =>
        LET link == asked[2]
            need == asked[3]
            answer == asked[4]
        IN  /\ answer <=> (link = hdr.claim.link /\ Covers(hdr.claim.mask, need))
            /\ link # hdr.claim.link => ~answer
            /\ (link = hdr.claim.link /\ need = 0) => answer

\* Asked on the claim's own link for bits it grants only in part: refused.
C10_Witness ==
    /\ asked[1] = "Asked"
    /\ asked[2] = hdr.claim.link
    /\ hdr.claim.mask = 5
    /\ asked[3] = 511
    /\ asked[4] = FALSE

C10_WitnessGranted ==
    /\ asked[1] = "Asked"
    /\ asked[2] = hdr.claim.link
    /\ hdr.claim.mask = 65541
    /\ asked[3] = 65541
    /\ asked[4] = TRUE

C10_WitnessOtherLink ==
    /\ asked[1] = "Asked"
    /\ asked[2] # hdr.claim.link
    /\ asked[3] = 0
    /\ asked[4] = FALSE

----------------------------------------------------------------------------
(* Scalars, src/src/scalar.rs, src/src/op.rs, src/src/tcref.rs.            *)
(* Every enum value is a tuple whose first element is the variant.         *)

\* Value::None
ValueNone == <<"Value::None">>

\* Value::Number, of a bool or of an integer
ValueNumber(n) == <<"Number", n>>

NumberBool(b) == <<"Bool", b>>

NumberInt(n) == <<"Int", n>>

\* Value::String
ValueString(s) == <<"String", s>>

\* Value::Link
ValueLink(link) == <<"Link", link>>

ScalarValue(v) == <<"Value", v>>

ScalarRef(r) == <<"Ref", r>>

ScalarOp(op) == <<"Op", op>>

ScalarMap(entries) == <<"Map", entries>>

ScalarTuple(items) == <<"Tuple", items>>

\* impl Default for Scalar
ScalarDefault == ScalarValue(ValueNone)

SubjectLink(link) == <<"Link", link>>

SubjectRef(id, path) == <<"Ref", id, path>>

OpRefGet(subject, key) == <<"Get", subject, key>>

OpRefPut(subject, key, value) == <<"Put", subject, key, value>>

OpRefPost(subject, params) == <<"Post", subject, params>>

OpRefDelete(subject, key) == <<"Delete", subject, key>>

OpDefGet(key_name, form) == <<"Get", key_name, form>>

OpDefPut(key_name, value_name, form) == <<"Put", key_name, value_name, form>>

OpDefPost(form) == <<"Post", form>>

OpDefDelete(key_name, form) == <<"Delete", key_name, form>>

TCRefOp(op) == <<"Op", op>>

TCRefId(id_ref) == <<"Id", id_ref>>

\* IfRef::new
TCRefIf(cond, then, or_else) == <<"If", cond, then, or_else>>

\* CondOp::new
TCRefCond(cond, then, or_else) == <<"Cond", cond, then, or_else>>

\* While::new
TCRefWhile(cond, closure, state) == <<"While", cond, closure, state>>

\* ForEach::new
TCRefForEach(items, op, item_name) == <<"ForEach", items, op, item_name>>

SCALAR_REF_PREFIX == <<"state", "scalar", "ref">>

OPREF_PREFIX == <<"state", "scalar", "ref", "op">>

OPDEF_PREFIX == <<"state", "scalar", "op">>

OPREF_GET == <<"state", "scalar", "ref", "op", "get">>

OPREF_PUT == <<"state", "scalar", "ref", "op", "put">>

OPREF_POST == <<"state", "scalar", "ref", "op", "post">>

OPREF_DELETE == <<"state", "scalar", "ref", "op", "delete">>

TCREF_IF == <<"state", "scalar", "ref", "if">>

TCREF_COND == <<"state", "scalar", "ref", "cond">>

TCREF_WHILE == <<"state", "scalar", "ref", "while">>

TCREF_FOR_EACH == <<"state", "scalar", "ref", "for_each">>

OPDEF_GET == <<"state", "scalar", "op", "get">>

OPDEF_PUT == <<"state", "scalar", "op", "put">>

OPDEF_POST == <<"state", "scalar", "op", "post">>

OPDEF_DELETE == <<"state", "scalar", "op", "delete">>

\* The labels of the value classes, /state/scalar/value/...
VALUE_PREFIX == <<"state", "scalar", "value">>

StartsWith(s, c) == s # <<>> /\ s[1] = c

\* str::parse::<Id>: one identifier
Id_from_str(s) ==
    IF Len(s) = 1 /\ IsWord(s[1]) THEN Ok(s[1]) ELSE Err("invalid Id")

\* impl Display for IdRef: "${id}"
IdRef_to_string(id_ref) == <<"$", id_ref>>

\* impl FromStr for IdRef
IdRef_from_str(id_ref) ==
    IF ~StartsWith(id_ref, "$") \/ Len(id_ref) < 2 THEN Err("invalid IdRef")
    ELSE Id_from_str(Tail(id_ref))

\* impl Display for Subject without the arm for an empty path
Subject_to_string_plain(subject) ==
    IF subject[1] = "Link" THEN LinkToString(subject[2])
    ELSE IdRef_to_string(subject[2]) \o FormatPath(subject[3])

\* impl Display for Subject
Subject_to_string(subject) ==
    IF subject[1] = "Link" THEN LinkToString(subject[2])
    ELSE IF subject[3] = <<>> THEN IdRef_to_string(subject[2])
    ELSE IdRef_to_string(subject[2]) \o FormatPath(subject[3])

\* str::find('/')
FindSlash(s) == CHOOSE i \in 1..Len(s) : s[i] = "/" /\ \A j \in 1..(i - 1) : s[j] # "/"

\* subject_from_str that drops what follows the first '/' of a $-ref
subject_from_str_bare(s) ==
    IF StartsWith(s, "$")
    THEN LET id == IF \E i \in 1..Len(s) : s[i] = "/"
                   THEN SubSeq(s, 1, FindSlash(s) - 1) ELSE s
             id_ref == IdRef_from_str(id)
         IN  IF ~IsOk(id_ref) THEN Err(BadRequest(id_ref[2]))
             ELSE Ok(SubjectRef(id_ref[2], <<>>))
    ELSE LET link == LinkFromStr(s)
         IN  IF ~IsOk(link) THEN Err(BadRequest(link[2])) ELSE Ok(SubjectLink(link[2]))

\* subject_from_str
subject_from_str(s) ==
    IF StartsWith(s, "$")
    THEN IF \E i \in 1..Len(s) : s[i] = "/"
         THEN LET i == FindSlash(s)
                  id == SubSeq(s, 1, i - 1)
                  path_str == SubSeq(s, i, Len(s))
                  path == PathFromStr(path_str)
                  id_ref == IdRef_from_str(id)
              IN  IF ~IsOk(path) THEN Err(BadRequest(path[2]))
                  ELSE IF ~IsOk(id_ref) THEN Err(BadRequest(id_ref[2]))
                  ELSE Ok(SubjectRef(id_ref[2], path[2]))
         ELSE LET id_ref == IdRef_from_str(s)
              IN  IF ~IsOk(id_ref) THEN Err(BadRequest(id_ref[2]))
                  ELSE Ok(SubjectRef(id_ref[2], <<>>))
    ELSE LET link == LinkFromStr(s)
         IN  IF ~IsOk(link) THEN Err(BadRequest(link[2])) ELSE Ok(SubjectLink(link[2]))

\* ValueType::from_path
ValueType_from_path(path) ==
    IF Len(path) = 4 /\ SubSeq(path, 1, 3) = VALUE_PREFIX
                     /\ path[4] \in {"none", "number", "string", "link"}
    THEN Some(path[4])
    ELSE None

\* OpDefType::from_path
OpDefType_from_path(path) ==
    IF Len(path) # 4 THEN None
    ELSE IF SubSeq(path, 1, 3) # OPDEF_PREFIX THEN None
    ELSE IF path[4] \in {"get", "put", "post", "delete"} THEN Some(path[4])
    ELSE None

\* OpDefType::path of OpDef::class
OpDefClassPath(op_def) ==
    CASE op_def[1] = "Get" -> OPDEF_GET
      [] op_def[1] = "Put" -> OPDEF_PUT
      [] op_def[1] = "Post" -> OPDEF_POST
      [] op_def[1] = "Delete" -> OPDEF_DELETE

----------------------------------------------------------------------------
(* Encoding.                                                               *)

\* impl IntoStream for Value
Value_into_stream(v) ==
    CASE v[1] = "Value::None" -> JNull
      [] v[1] = "Number" -> IF v[2][1] = "Bool" THEN JBool(v[2][2]) ELSE JNum(v[2][2])
      [] v[1] = "String" -> JStr(v[2])
      [] v[1] = "Link" -> JObj(<<<<LinkToString(v[2]), JSeq(<<>>)>>>>)

RECURSIVE Scalar_into_stream(_)
RECURSIVE ScalarSeq_into_stream(_)
RECURSIVE Map_into_stream(_)
RECURSIVE Form_into_stream(_)
RECURSIVE OpDef_into_stream(_)
RECURSIVE OpRef_into_stream(_)
RECURSIVE TCRef_into_stream(_)

\* impl IntoStream for ScalarSeq: the elements in order
ScalarSeq_into_stream(items) ==
    JSeq([i \in 1..Len(items) |-> Scalar_into_stream(items[i])])

\* impl IntoStream for Map: the entries in key order
Map_into_stream(entries) ==
    JObj([i \in 1..Len(entries) |->
             <<<<entries[i][1]>>, Scalar_into_stream(entries[i][2])>>])

\* Vec<(Id, Scalar)>: a sequence of pairs
Form_into_stream(form) ==
    JSeq([i \in 1..Len(form) |->
             JSeq(<<JStr(<<form[i][1]>>), Scalar_into_stream(form[i][2])>>)])

\* impl IntoStream for OpDef
OpDef_into_stream(op_def) ==
    LET class == FormatPath(OpDefClassPath(op_def))
        def == CASE op_def[1] = "Get" ->
                        JSeq(<<JStr(<<op_def[2]>>), Form_into_stream(op_def[3])>>)
                 [] op_def[1] = "Put" ->
                        JSeq(<<JStr(<<op_def[2]>>), JStr(<<op_def[3]>>),
                               Form_into_stream(op_def[4])>>)
                 [] op_def[1] = "Post" -> Form_into_stream(op_def[2])
                 [] op_def[1] = "Delete" ->
                        JSeq(<<JStr(<<op_def[2]>>), Form_into_stream(op_def[3])>>)
    IN  JObj(<<<<class, def>>>>)

\* impl IntoStream for OpRef
OpRef_into_stream(op) ==
    CASE op[1] = "Get" ->
             JObj(<<<<Subject_to_string(op[2]), ScalarSeq_into_stream(<<op[3]>>)>>>>)
      [] op[1] = "Put" ->
             JObj(<<<<Subject_to_string(op[2]), ScalarSeq_into_stream(<<op[3], op[4]>>)>>>>)
      [] op[1] = "Post" ->
             JObj(<<<<Subject_to_string(op[2]), Map_into_stream(op[3])>>>>)
      [] op[1] = "Delete" ->
             JObj(<<<<FormatPath(OPREF_DELETE),
                      JSeq(<<JStr(Subject_to_string(op[2])), Scalar_into_stream(op[3])>>)>>>>)

\* impl IntoStream for TCRef, with encode_id_ref, encode_if_ref, encode_cond_op,
\* encode_while_ref and encode_for_each_ref
TCRef_into_stream(r) ==
    CASE r[1] = "Op" -> OpRef_into_stream(r[2])
      [] r[1] = "Id" ->
             JObj(<<<<IdRef_to_string(r[2]), ScalarSeq_into_stream(<<>>)>>>>)
      [] r[1] = "If" ->
             JObj(<<<<FormatPath(TCREF_IF),
                      ScalarSeq_into_stream(<<ScalarRef(r[2]), r[3], r[4]>>)>>>>)
      [] r[1] = "Cond" ->
             JObj(<<<<FormatPath(TCREF_COND),
                      JSeq(<<Scalar_into_stream(ScalarRef(r[2])),
                             OpDef_into_stream(r[3]), OpDef_into_stream(r[4])>>)>>>>)
      [] r[1] = "While" ->
             JObj(<<<<FormatPath(TCREF_WHILE),
                      ScalarSeq_into_stream(<<r[2], r[3], r[4]>>)>>>>)
      [] r[1] = "ForEach" ->
             JObj(<<<<FormatPath(TCREF_FOR_EACH),
                      ScalarSeq_into_stream(
                          <<r[2], r[3], ScalarValue(ValueString(<<r[4]>>))>>)>>>>)

\* impl IntoStream for Scalar
Scalar_into_stream(s) ==
    CASE s[1] = "Value" -> Value_into_stream(s[2])
      [] s[1] = "Ref" -> TCRef_into_stream(s[2])
      [] s[1] = "Op" -> OpDef_into_stream(s[2])
      [] s[1] = "Map" -> Map_into_stream(s[2])
      [] s[1] = "Tuple" -> ScalarSeq_into_stream(s[2])

----------------------------------------------------------------------------
(* Decoding.  A map is decoded from its entries in document order; the     *)
(* first error met ends the decoding.                                      *)

RECURSIVE try_decode(_, _)
RECURSIVE Scalar_from_stream(_)
RECURSIVE VecScalar_from_stream(_)
RECURSIVE MapScalar_entries(_, _)
RECURSIVE Form_entries(_)
RECURSIVE Scalar_map_entries(_, _)
RECURSIVE OpArgs_from_stream(_)
RECURSIVE OpDef_from_stream(_)
RECURSIVE decode_opdef_map_entry(_, _)
RECURSIVE decode_opref_map_entry(_, _, _)
RECURSIVE decode_tcref_map_entry(_, _, _)
RECURSIVE Scalar_visit_map(_)

\* Id::from_stream: a string that parses as an Id
Id_from_stream(doc) ==
    IF doc[1] # "str" THEN Err("expected an Id") ELSE Id_from_str(doc[2])

\* impl FromStream for Subject
Subject_from_stream(doc) ==
    IF doc[1] # "str" THEN Err("expected a string") ELSE subject_from_str(doc[2])

\* The elements of a sequence decoded as Scalars, in order
RECURSIVE Scalars_in_order(_)
Scalars_in_order(items) ==
    IF items = <<>> THEN Ok(<<>>)
    ELSE LET first == try_decode("Scalar", Head(items))
         IN  IF ~IsOk(first) THEN first
             ELSE LET others == Scalars_in_order(Tail(items))
                  IN  IF ~IsOk(others) THEN others
                      ELSE Ok(<<first[2]>> \o others[2])

\* Vec<Scalar>::from_stream
VecScalar_from_stream(doc) ==
    IF doc[1] # "seq" THEN Err("expected a sequence") ELSE Scalars_in_order(doc[2])

\* The loop of BTreeMap<Id, Scalar>::from_stream and of ArgsVisitor::visit_map:
\* next_key::<Id>, next_value::<Scalar>, insert
MapScalar_entries(entries, params) ==
    IF entries = <<>> THEN Ok(params)
    ELSE LET key == Id_from_str(Head(entries)[1])
             value == try_decode("Scalar", Head(entries)[2])
         IN  IF ~IsOk(key) THEN key
             ELSE IF ~IsOk(value) THEN value
             ELSE MapScalar_entries(Tail(entries), BInsert(params, key[2], value[2]))

\* Map<Scalar>::from_stream
MapScalar_from_stream(doc) ==
    IF doc[1] # "obj" THEN Err("expected a map") ELSE MapScalar_entries(doc[2], <<>>)

\* Vec<(Id, Scalar)>::from_stream: the pairs in order
Form_entries(items) ==
    IF items = <<>> THEN Ok(<<>>)
    ELSE LET pair == Head(items)
         IN  IF ~(pair[1] = "seq" /\ Len(pair[2]) = 2) THEN Err("expected a pair")
             ELSE LET id == Id_from_stream(pair[2][1])
                      value == try_decode("Scalar", pair[2][2])
                  IN  IF ~IsOk(id) THEN id
                      ELSE IF ~IsOk(value) THEN value
                      ELSE LET others == Form_entries(Tail(items))
                           IN  IF ~IsOk(others) THEN others
                               ELSE Ok(<<<<id[2], value[2]>>>> \o others[2])

Form_from_stream(doc) ==
    IF doc[1] # "seq" THEN Err("expected a sequence") ELSE Form_entries(doc[2])

\* impl FromStream for OpArgs
OpArgs_from_stream(doc) ==
    IF doc[1] = "obj"
    THEN LET params == MapScalar_entries(doc[2], <<>>)
         IN  IF ~IsOk(params) THEN params ELSE Ok(<<"Map", params[2]>>)
    ELSE IF doc[1] = "seq"
    THEN LET items == Scalars_in_order(doc[2])
         IN  IF ~IsOk(items) THEN items ELSE Ok(<<"Seq", items[2]>>)
    ELSE Err("expected OpRef args (a sequence or map)")

\* decode_opdef_map_entry: next_value of GetOp, PutOp, PostOp or DeleteOp; the
\* keys that follow are ignored
decode_opdef_map_entry(op_def_type, value) ==
    IF op_def_type = "post"
    THEN LET form == try_decode("Form", value)
         IN  IF ~IsOk(form) THEN form ELSE Ok(OpDefPost(form[2]))
    ELSE IF op_def_type = "put"
    THEN IF ~(value[1] = "seq" /\ Len(value[2]) = 3) THEN Err("invalid length")
         ELSE LET key_name == Id_from_stream(value[2][1])
                  value_name == Id_from_stream(value[2][2])
                  form == try_decode("Form", value[2][3])
              IN  IF ~IsOk(key_name) THEN key_name
                  ELSE IF ~IsOk(value_name) THEN value_name
                  ELSE IF ~IsOk(form) THEN form
                  ELSE Ok(OpDefPut(key_name[2], value_name[2], form[2]))
    ELSE IF ~(value[1] = "seq" /\ Len(value[2]) = 2) THEN Err("invalid length")
         ELSE LET key_name == Id_from_stream(value[2][1])
                  form == try_decode("Form", value[2][2])
              IN  IF ~IsOk(key_name) THEN key_name
                  ELSE IF ~IsOk(form) THEN form
                  ELSE IF op_def_type = "get" THEN Ok(OpDefGet(key_name[2], form[2]))
                  ELSE Ok(OpDefDelete(key_name[2], form[2]))

\* impl FromStream for OpDef
OpDef_from_stream(doc) ==
    IF doc[1] # "obj" THEN Err("expected an Op definition")
    ELSE IF doc[2] = <<>> THEN Err("expected Op definition type")
    ELSE LET key == doc[2][1][1]
             path == PathFromStr(key)
             op_def_type == IF IsOk(path) THEN OpDefType_from_path(path[2]) ELSE None
         IN  IF ~IsOk(path) THEN path
             ELSE IF op_def_type = None THEN Err("expected Op definition type")
             ELSE decode_opdef_map_entry(op_def_type[2], doc[2][1][2])

\* opref_from_subject_args without the arity error: extra elements are dropped
opref_from_subject_args_lenient(subject, args) ==
    IF args[1] = "Map" THEN Ok(OpRefPost(subject, args[2]))
    ELSE IF Len(args[2]) = 1 THEN Ok(OpRefGet(subject, args[2][1]))
    ELSE IF Len(args[2]) >= 2 THEN Ok(OpRefPut(subject, args[2][1], args[2][2]))
    ELSE Err("invalid OpRef params (expected 1 or 2 elements)")

\* opref_from_subject_args
opref_from_subject_args(subject, args) ==
    IF args[1] = "Map" THEN Ok(OpRefPost(subject, args[2]))
    ELSE IF Len(args[2]) = 1 THEN Ok(OpRefGet(subject, args[2][1]))
    ELSE IF Len(args[2]) = 2 THEN Ok(OpRefPut(subject, args[2][1], args[2][2]))
    ELSE Err("invalid OpRef params (expected 1 or 2 elements)")

\* next_value::<(Subject, Scalar)>
SubjectScalar_from_stream(doc) ==
    IF ~(doc[1] = "seq" /\ Len(doc[2]) = 2) THEN Err("invalid length")
    ELSE LET subject == Subject_from_stream(doc[2][1])
             key == try_decode("Scalar", doc[2][2])
         IN  IF ~IsOk(subject) THEN subject
             ELSE IF ~IsOk(key) THEN key
             ELSE Ok(<<subject[2], key[2]>>)

\* decode_opref_map_entry; the keys that follow the first are ignored
decode_opref_map_entry(key, value, rest) ==
    LET path == IF StartsWith(key, "/") THEN PathFromStr(key) ELSE Err("no path")
        is(label) == IsOk(path) /\ path[2] = label
    IN  IF StartsWith(key, "/") /\ (is(OPREF_GET) \/ is(OPREF_DELETE))
        THEN LET pair == try_decode("SubjectScalar", value)
             IN  IF ~IsOk(pair) THEN pair
                 ELSE IF is(OPREF_GET) THEN Ok(OpRefGet(pair[2][1], pair[2][2]))
                 ELSE Ok(OpRefDelete(pair[2][1], pair[2][2]))
        ELSE IF StartsWith(key, "/") /\ is(OPREF_PUT)
        THEN IF ~(value[1] = "seq" /\ Len(value[2]) = 3) THEN Err("invalid length")
             ELSE LET subject == Subject_from_stream(value[2][1])
                      k == try_decode("Scalar", value[2][2])
                      v == try_decode("Scalar", value[2][3])
                  IN  IF ~IsOk(subject) THEN subject
                      ELSE IF ~IsOk(k) THEN k
                      ELSE IF ~IsOk(v) THEN v
                      ELSE Ok(OpRefPut(subject[2], k[2], v[2]))
        ELSE IF StartsWith(key, "/") /\ is(OPREF_POST)
        THEN IF ~(value[1] = "seq" /\ Len(value[2]) = 2) THEN Err("invalid length")
             ELSE LET subject == Subject_from_stream(value[2][1])
                      params == try_decode("MapScalar", value[2][2])
                  IN  IF ~IsOk(subject) THEN subject
                      ELSE IF ~IsOk(params) THEN params
                      ELSE Ok(OpRefPost(subject[2], params[2]))
        ELSE LET subject == subject_from_str(key)
                 args == try_decode("OpArgs", value)
             IN  IF ~IsOk(subject) THEN subject
                 ELSE IF ~IsOk(args) THEN args
                 ELSE opref_from_subject_args(subject[2], args[2])

\* impl FromStream for CondOpArgs without the test for a fourth element
CondOpArgs_from_stream_lenient(doc) ==
    IF doc[1] # "seq" THEN Err("expected a CondOp args tuple")
    ELSE LET seq == doc[2]
             cond == try_decode("Scalar", seq[1])
             then == try_decode("OpDef", seq[2])
             or_else == try_decode("OpDef", seq[3])
         IN  IF Len(seq) < 1 THEN Err("invalid CondOp params (missing condition)")
             ELSE IF ~IsOk(cond) THEN cond
             ELSE IF Len(seq) < 2 THEN Err("invalid CondOp params (missing then op)")
             ELSE IF ~IsOk(then) THEN then
             ELSE IF Len(seq) < 3 THEN Err("invalid CondOp params (missing else op)")
             ELSE IF ~IsOk(or_else) THEN or_else
             ELSE Ok(<<cond[2], then[2], or_else[2]>>)

\* impl FromStream for CondOpArgs
CondOpArgs_from_stream(doc) ==
    IF doc[1] # "seq" THEN Err("expected a CondOp args tuple")
    ELSE LET seq == doc[2]
             cond == try_decode("Scalar", seq[1])
             then == try_decode("OpDef", seq[2])
             or_else == try_decode("OpDef", seq[3])
         IN  IF Len(seq) < 1 THEN Err("invalid CondOp params (missing condition)")
             ELSE IF ~IsOk(cond) THEN cond
             ELSE IF Len(seq) < 2 THEN Err("invalid CondOp params (missing then op)")
             ELSE IF ~IsOk(then) THEN then
             ELSE IF Len(seq) < 3 THEN Err("invalid CondOp params (missing else op)")
             ELSE IF ~IsOk(or_else) THEN or_else
             ELSE IF Len(seq) > 3 THEN Err("invalid CondOp params (expected 3 elements)")
             ELSE Ok(<<cond[2], then[2], or_else[2]>>)

\* decode_tcref_map_entry as it was when If took a literal condition
decode_tcref_map_entry_literal(key, value, rest) ==
    LET key_path == IF StartsWith(key, "/") THEN PathFromStr(key) ELSE Err("no path")
        is(label) == IsOk(key_path) /\ key_path[2] = label
    IN  IF is(TCREF_IF)
        THEN LET items == try_decode("VecScalar", value)
             IN  IF ~IsOk(items) THEN items
                 ELSE IF Len(items[2]) # 3
                 THEN Err("invalid If ref params (expected 3 elements)")
                 ELSE IF items[2][1][1] # "Ref"
                 THEN Ok(TCRefIf(items[2][1], items[2][2], items[2][3]))
                 ELSE Ok(TCRefIf(items[2][1][2], items[2][2], items[2][3]))
        ELSE IF is(TCREF_COND)
        THEN LET args == try_decode("CondOpArgs", value)
             IN  IF ~IsOk(args) THEN args
                 ELSE IF args[2][1][1] # "Ref"
                 THEN Err("invalid CondOp condition (expected ref)")
                 ELSE Ok(TCRefCond(args[2][1][2], args[2][2], args[2][3]))
        ELSE IF is(TCREF_WHILE)
        THEN LET items == try_decode("VecScalar", value)
             IN  IF ~IsOk(items) THEN items
                 ELSE IF Len(items[2]) # 3
                 THEN Err("invalid While ref params (expected 3 elements)")
                 ELSE Ok(TCRefWhile(items[2][1], items[2][2], items[2][3]))
        ELSE IF is(TCREF_FOR_EACH)
        THEN LET items == try_decode("VecScalar", value)
             IN  IF ~IsOk(items) THEN items
                 ELSE IF Len(items[2]) # 3
                 THEN Err("invalid ForEach ref params (expected 3 elements)")
                 ELSE LET name == items[2][3]
                      IN  IF ~(name[1] = "Value" /\ name[2][1] = "String")
                          THEN Err("invalid ForEach item_name (expected string)")
                          ELSE LET item_name == Id_from_str(name[2][2])
                               IN  IF ~IsOk(item_name) THEN item_name
                                   ELSE Ok(TCRefForEach(items[2][1], items[2][2],
                                                        item_name[2]))
        ELSE IF StartsWith(key, "$")
        THEN LET args == try_decode("OpArgs", value)
                 id_ref == IdRef_from_str(key)
                 subject == subject_from_str(key)
             IN  IF ~IsOk(args) THEN args
                 ELSE IF args[2][1] = "Seq" /\ args[2][2] = <<>>
                 THEN IF ~IsOk(id_ref) THEN id_ref ELSE Ok(TCRefId(id_ref[2]))
                 ELSE IF ~IsOk(subject) THEN subject
                 ELSE LET op == opref_from_subject_args(subject[2], args[2])
                      IN  IF ~IsOk(op) THEN op ELSE Ok(TCRefOp(op[2]))
        ELSE LET op == decode_opref_map_entry(key, value, rest)
             IN  IF ~IsOk(op) THEN op ELSE Ok(TCRefOp(op[2]))

\* decode_tcref_map_entry
decode_tcref_map_entry(key, value, rest) ==
    LET key_path == IF StartsWith(key, "/") THEN PathFromStr(key) ELSE Err("no path")
        is(label) == IsOk(key_path) /\ key_path[2] = label
    IN  IF is(TCREF_IF)
        THEN LET items == try_decode("VecScalar", value)
             IN  IF ~IsOk(items) THEN items
                 ELSE IF Len(items[2]) # 3
                 THEN Err("invalid If ref params (expected 3 elements)")
                 ELSE IF items[2][1][1] # "Ref"
                 THEN Err("invalid If ref condition (expected ref)")
                 ELSE Ok(TCRefIf(items[2][1][2], items[2][2], items[2][3]))
        ELSE IF is(TCREF_COND)
        THEN LET args == try_decode("CondOpArgs", value)
             IN  IF ~IsOk(args) THEN args
                 ELSE IF args[2][1][1] # "Ref"
                 THEN Err("invalid CondOp condition (expected ref)")
                 ELSE Ok(TCRefCond(args[2][1][2], args[2][2], args[2][3]))
        ELSE IF is(TCREF_WHILE)
        THEN LET items == try_decode("VecScalar", value)
             IN  IF ~IsOk(items) THEN items
                 ELSE IF Len(items[2]) # 3
                 THEN Err("invalid While ref params (expected 3 elements)")
                 ELSE Ok(TCRefWhile(items[2][1], items[2][2], items[2][3]))
        ELSE IF is(TCREF_FOR_EACH)
        THEN LET items == try_decode("VecScalar", value)
             IN  IF ~IsOk(items) THEN items
                 ELSE IF Len(items[2]) # 3
                 THEN Err("invalid ForEach ref params (expected 3 elements)")
                 ELSE LET name == items[2][3]
                      IN  IF ~(name[1] = "Value" /\ name[2][1] = "String")
                          THEN Err("invalid ForEach item_name (expected string)")
                          ELSE LET item_name == Id_from_str(name[2][2])
                               IN  IF ~IsOk(item_name) THEN item_name
                                   ELSE Ok(TCRefForEach(items[2][1], items[2][2],
                                                        item_name[2]))
        ELSE IF StartsWith(key, "$")
        THEN LET args == try_decode("OpArgs", value)
                 id_ref == IdRef_from_str(key)
                 subject == subject_from_str(key)
             IN  IF ~IsOk(args) THEN args
                 ELSE IF args[2][1] = "Seq" /\ args[2][2] = <<>>
                 THEN IF ~IsOk(id_ref) THEN id_ref ELSE Ok(TCRefId(id_ref[2]))
                 ELSE IF ~IsOk(subject) THEN subject
                 ELSE LET op == opref_from_subject_args(subject[2], args[2])
                      IN  IF ~IsOk(op) THEN op ELSE Ok(TCRefOp(op[2]))
        ELSE LET op == decode_opref_map_entry(key, value, rest)
             IN  IF ~IsOk(op) THEN op ELSE Ok(TCRefOp(op[2]))

\* The value of a map entry whose key is the label of a value class
TypedValue_from_stream(value_type, value) ==
    IF value_type = "none" THEN Ok(ValueNone)
    ELSE IF value_type = "number"
    THEN IF value[1] = "num" THEN Ok(ValueNumber(NumberInt(value[2])))
         ELSE IF value[1] = "bool" THEN Ok(ValueNumber(NumberBool(value[2])))
         ELSE Err("expected a Number")
    ELSE IF value_type = "string"
    THEN IF value[1] = "str" THEN Ok(ValueString(value[2])) ELSE Err("expected a string")
    ELSE IF value[1] # "str" THEN Err("expected a string")
         ELSE LET link == LinkFromStr(value[2])
              IN  IF ~IsOk(link) THEN link ELSE Ok(ValueLink(link[2]))

\* The last part of ScalarVisitor::visit_map: a map of Scalars by Id, the
\* value of each entry decoded before its key is parsed
Scalar_map_entries(entries, out_map) ==
    IF entries = <<>> THEN Ok(ScalarMap(out_map))
    ELSE LET value == try_decode("Scalar", Head(entries)[2])
             id == Id_from_str(Head(entries)[1])
         IN  IF ~IsOk(value) THEN value
             ELSE IF ~IsOk(id) THEN id
             ELSE Scalar_map_entries(Tail(entries), BInsert(out_map, id[2], value[2]))

\* ScalarVisitor::visit_map
Scalar_visit_map(entries) ==
    IF entries = <<>> THEN Ok(ScalarMap(<<>>))
    ELSE LET key == Head(entries)[1]
             value == Head(entries)[2]
             rest == Tail(entries)
             path == PathFromStr(key)
             value_type == IF IsOk(path) THEN ValueType_from_path(path[2]) ELSE None
             op_def_type == IF IsOk(path) THEN OpDefType_from_path(path[2]) ELSE None
         IN  IF StartsWith(key, "/")
             THEN IF value_type # None
                  THEN LET v == TypedValue_from_stream(value_type[2], value)
                       IN  IF ~IsOk(v) THEN v ELSE Ok(ScalarValue(v[2]))
                  ELSE IF op_def_type # None
                  THEN LET op_def == decode_opdef_map_entry(op_def_type[2], value)
                       IN  IF ~IsOk(op_def) THEN op_def ELSE Ok(ScalarOp(op_def[2]))
                  ELSE IF IsOk(path) /\ path[2] \in {TCREF_IF, TCREF_COND, TCREF_WHILE,
                                                     TCREF_FOR_EACH, OPREF_DELETE}
                  THEN LET r == decode_tcref_map_entry(key, value, rest)
                       IN  IF ~IsOk(r) THEN r ELSE Ok(ScalarRef(r[2]))
                  ELSE LET args == try_decode("OpArgs", value)
                           link == LinkFromStr(key)
                           subject == subject_from_str(key)
                       IN  IF ~IsOk(args) THEN args
                           ELSE IF args[2][1] = "Seq" /\ args[2][2] = <<>> /\ IsOk(link)
                           THEN Ok(ScalarValue(ValueLink(link[2])))
                           ELSE IF ~IsOk(subject) THEN subject
                           ELSE LET op == opref_from_subject_args(subject[2], args[2])
                                IN  IF ~IsOk(op) THEN op
                                    ELSE Ok(ScalarRef(TCRefOp(op[2])))
             ELSE IF StartsWith(key, "$")
             THEN LET r == decode_tcref_map_entry(key, value, rest)
                  IN  IF ~IsOk(r) THEN r ELSE Ok(ScalarRef(r[2]))
             ELSE Scalar_map_entries(entries, <<>>)

\* impl FromStream for Scalar: decode_any with ScalarVisitor
Scalar_from_stream(doc) ==
    CASE doc[1] = "null" -> Ok(ScalarValue(ValueNone))
      [] doc[1] = "bool" -> Ok(ScalarValue(ValueNumber(NumberBool(doc[2]))))
      [] doc[1] = "num" -> Ok(ScalarValue(ValueNumber(NumberInt(doc[2]))))
      [] doc[1] = "str" -> Ok(ScalarValue(ValueString(doc[2])))
      [] doc[1] = "seq" ->
             LET items == Scalars_in_order(doc[2])
             IN  IF ~IsOk(items) THEN items ELSE Ok(ScalarTuple(items[2]))
      [] doc[1] = "obj" -> Scalar_visit_map(doc[2])

\* impl FromStream for TCRef: decode_map with RefVisitor
TCRef_from_stream(doc) ==
    IF doc[1] # "obj" THEN Err("expected a Ref")
    ELSE IF doc[2] = <<>> THEN Err("expected ref map key")
    ELSE decode_tcref_map_entry(Head(doc[2])[1], Head(doc[2])[2], Tail(doc[2]))

\* FromStream::from_stream of the type asked for by next_value::<T>,
\* next_element::<T> or try_decode::<T>
try_decode(type, doc) ==
    CASE type = "Scalar" -> Scalar_from_stream(doc)
      [] type = "VecScalar" -> VecScalar_from_stream(doc)
      [] type = "MapScalar" -> MapScalar_from_stream(doc)
      [] type = "Form" -> Form_from_stream(doc)
      [] type = "OpArgs" -> OpArgs_from_stream(doc)
      [] type = "OpDef" -> OpDef_from_stream(doc)
      [] type = "CondOpArgs" -> CondOpArgs_from_stream(doc)
      [] type = "SubjectScalar" -> SubjectScalar_from_stream(doc)
      [] type = "TCRef" -> TCRef_from_stream(doc)

----------------------------------------------------------------------------
(* Scalars through the codec.                                              *)

MaxTupleLen == 2

OrdinaryLinks == {<<"a">>, <<"lib", "acme">>}

\* Links that are well-formed and equal a label of the encoding
ReservedLinks ==
    {OPDEF_GET, OPDEF_POST, OPREF_GET, OPREF_DELETE, TCREF_IF, TCREF_WHILE,
     VALUE_PREFIX \o <<"none">>}

Subjects ==
    {SubjectLink(link) : link \in OrdinaryLinks \cup ReservedLinks}
        \cup {SubjectRef("x", path) : path \in {<<>>, <<"a">>}}

LeafValues ==
    {ValueNone, ValueNumber(NumberInt(1)), ValueNumber(NumberBool(TRUE)),
     ValueString(<<"a">>), ValueString(<<"/", "a">>), ValueString(<<"$", "x">>)}
        \cup {ValueLink(link) : link \in OrdinaryLinks}

Leaves == {ScalarValue(v) : v \in LeafValues}

Keys == {ScalarDefault, ScalarValue(ValueNumber(NumberInt(1))),
         ScalarValue(ValueString(<<"/", "a">>))}

ParamSets ==
    {<<>>, <<<<"a", ScalarDefault>>>>,
     <<<<"a", ScalarValue(ValueNumber(NumberInt(1)))>>, <<"b", ScalarTuple(<<>>)>>>>}

OpRefs ==
    {OpRefGet(subject, key) : subject \in Subjects, key \in Keys}
        \cup {OpRefPut(subject, key, value) :
                 subject \in Subjects, key \in Keys, value \in {ScalarDefault, ScalarTuple(<<>>)}}
        \cup {OpRefPost(subject, params) : subject \in Subjects, params \in ParamSets}
        \cup {OpRefDelete(subject, key) : subject \in Subjects, key \in Keys}

Forms ==
    {<<>>, <<<<"a", ScalarDefault>>>>,
     <<<<"b", ScalarRef(TCRefId("x"))>>, <<"a", ScalarValue(ValueNumber(NumberInt(1)))>>>>}

OpDefs ==
    {OpDefGet("k", form) : form \in Forms}
        \cup {OpDefPut("k", "v", form) : form \in Forms}
        \cup {OpDefPost(form) : form \in Forms}
        \cup {OpDefDelete("k", form) : form \in Forms}

Conds ==
    {TCRefId("x"),
     TCRefOp(OpRefGet(SubjectLink(<<"a">>), ScalarDefault)),
     TCRefOp(OpRefPost(SubjectRef("x", <<"a">>), <<>>))}

\* The operands of tuples, maps and control flow
Core ==
    {ScalarDefault,
     ScalarValue(ValueNumber(NumberInt(1))),
     ScalarValue(ValueString(<<"a">>)),
     ScalarValue(ValueLink(<<"a">>)),
     ScalarRef(TCRefId("x")),
     ScalarRef(TCRefOp(OpRefGet(SubjectLink(<<"lib", "acme">>), ScalarDefault))),
     ScalarOp(OpDefPost(<<>>)),
     ScalarTuple(<<ScalarDefault>>),
     ScalarMap(<<<<"a", ScalarDefault>>>>)}

Flow ==
    {TCRefIf(cond, then, or_else) : cond \in Conds, then \in Core, or_else \in Core}
        \cup {TCRefCond(cond, then, or_else) :
                 cond \in Conds, then \in OpDefs, or_else \in {OpDefPost(<<>>)}}
        \cup {TCRefWhile(cond, closure, state) :
                 cond \in Core, closure \in {ScalarOp(OpDefPost(<<>>))}, state \in Core}
        \cup {TCRefForEach(items, op, item_name) :
                 items \in Core, op \in {ScalarOp(OpDefPost(<<>>))}, item_name \in {"a", "b"}}

Tuples == {ScalarTuple(items) : items \in SeqsUpTo(Core, MaxTupleLen)}

Maps ==
    {ScalarMap(<<>>)}
        \cup {ScalarMap(<<<<k, v>>>>) : k \in {"a", "b"}, v \in Core}
        \cup {ScalarMap(<<<<"a", v>>, <<"b", w>>>>) : v \in Core, w \in Core}

Scalars ==
    Leaves
        \cup {ScalarRef(TCRefId("x"))}
        \cup {ScalarRef(TCRefOp(op)) : op \in OpRefs}
        \cup {ScalarRef(r) : r \in Flow}
        \cup {ScalarOp(op_def) : op_def \in OpDefs}
        \cup Tuples
        \cup Maps

\* destream_json::encode(scalar)
EncodeScalar ==
    /\ json = None
    /\ json' = Some(Scalar_into_stream(scalar))
    /\ UNCHANGED <<scalar, out, again, dirVars, txnVars, moreVars>>

\* destream_json::try_decode::<Scalar>
DecodeScalar ==
    /\ json # None
    /\ out = None
    /\ out' = Some(try_decode("Scalar", json[2]))
    /\ UNCHANGED <<scalar, json, again, dirVars, txnVars, moreVars>>

\* Scalar::into_stream of the Scalar that was decoded
ReEncode ==
    /\ out # None
    /\ IsOk(out[2])
    /\ again = None
    /\ again' = Some(Scalar_into_stream(out[2][2]))
    /\ UNCHANGED <<scalar, json, out, dirVars, txnVars, moreVars>>

InitScalar ==
    /\ scalar \in Scalars
    /\ json = None
    /\ out = None
    /\ again = None
    /\ DirIdle
    /\ TxnIdle
    /\ MoreIdle

NextScalar ==
    \/ EncodeScalar
    \/ DecodeScalar
    \/ ReEncode

SpecScalar == InitScalar /\ [][NextScalar]_vars

----------------------------------------------------------------------------
(* Properties of the Scalar codec.                                         *)

\* C1: decoding the JSON written for a Scalar succeeds and returns a Scalar
\* equal to it, whatever the Scalar: any nesting of Value, Ref, Op, Map and
\* Tuple, any Link or $-ref as the subject of an OpRef, the Links that equal a
\* reserved label included.
C1_ScalarRoundTrip ==
    out # None => SameResult(out[2], Ok(scalar))

----------------------------------------------------------------------------
(* Documents through the decoders.                                         *)

\* decode_tcref_map_entry: the entries still in the map when it returns Ok.
\* The branches of the four control-flow labels and decode_opref_map_entry end
\* with a loop that reads every entry left; the branch of a $-key returns
\* without it.
tcref_entry_unread(key, rest) ==
    LET key_path == IF StartsWith(key, "/") THEN PathFromStr(key) ELSE Err("no path")
        is(label) == IsOk(key_path) /\ key_path[2] = label
    IN  IF is(TCREF_IF) \/ is(TCREF_COND) \/ is(TCREF_WHILE) \/ is(TCREF_FOR_EACH)
        THEN <<>>
        ELSE IF StartsWith(key, "$") THEN rest
        ELSE <<>>

\* ScalarVisitor::visit_map: the entries still in the map when it returns Ok
Scalar_visit_map_unread(entries) ==
    IF entries = <<>> THEN <<>>
    ELSE LET key == Head(entries)[1]
             rest == Tail(entries)
             path == PathFromStr(key)
             value_type == IF IsOk(path) THEN ValueType_from_path(path[2]) ELSE None
             op_def_type == IF IsOk(path) THEN OpDefType_from_path(path[2]) ELSE None
         IN  IF StartsWith(key, "/")
             THEN IF value_type # None THEN <<>>
                  ELSE IF op_def_type # None THEN <<>>
                  ELSE IF IsOk(path) /\ path[2] \in {TCREF_IF, TCREF_COND, TCREF_WHILE,
                                                     TCREF_FOR_EACH, OPREF_DELETE}
                  THEN tcref_entry_unread(key, rest)
                  ELSE <<>>
             ELSE IF StartsWith(key, "$") THEN tcref_entry_unread(key, rest)
             ELSE <<>>

\* The entries of a document that a decoder that returned result left unread
Unread(result, entries) == IF IsOk(result) THEN entries ELSE <<>>

JRef == JObj(<<<<<<"$", "x">>, JSeq(<<>>)>>>>)

JOpDef == Scalar_into_stream(ScalarOp(OpDefGet("a", <<>>)))

DocLabels ==
    {TCREF_IF, TCREF_COND, TCREF_WHILE, TCREF_FOR_EACH,
     OPREF_GET, OPREF_PUT, OPREF_POST, OPREF_DELETE,
     OPDEF_GET, OPDEF_POST, VALUE_PREFIX \o <<"number">>, VALUE_PREFIX \o <<"link">>}

DocKeys ==
    {<<"/", "a">>, <<"/", "lib", "/", "acme">>, <<"/", "a", "/">>,
     <<"$", "x">>, <<"$", "x", "/", "a">>, <<"$">>, <<"a">>, <<"b">>}
        \cup {FormatPath(label) : label \in DocLabels}

\* The conditions offered to If, Cond and While: a ref, a literal, a map, a
\* tuple, an Op definition and a string
DocConds == {JRef, JNum(1), JObj(<<<<<<"a">>, JNum(1)>>>>), JSeq(<<>>), JOpDef, JStr(<<"a">>)}

DocPayloads ==
    {JNull, JNum(1), JStr(<<"/", "a">>),
     JSeq(<<>>), JSeq(<<JNull>>), JSeq(<<JNum(1), JStr(<<"a">>)>>),
     JSeq(<<JNull, JNum(1), JNull>>),
     JObj(<<>>), JObj(<<<<<<"a">>, JNum(1)>>>>),
     JObj(<<<<<<"a">>, JNum(1)>>, <<<<"a">>, JNum(2)>>>>),
     JObj(<<<<<<"b">>, JNum(1)>>, <<<<"a">>, JNull>>>>),
     JSeq(<<JStr(<<"/", "a">>), JNull>>),
     JSeq(<<JStr(<<"$", "x", "/", "a">>), JNum(1)>>),
     JSeq(<<JStr(<<"/", "a">>), JNull, JNum(1)>>),
     JSeq(<<JStr(<<"/", "a">>), JObj(<<<<<<"a">>, JNum(1)>>>>)>>),
     JSeq(<<JStr(<<"/", "a">>), JObj(<<<<<<"a">>, JNum(1)>>, <<<<"a">>, JNum(2)>>>>)>>),
     JSeq(<<JRef, JOpDef, JStr(<<"a">>)>>),
     JSeq(<<JRef, JOpDef, JStr(<<"/", "a">>)>>),
     JSeq(<<JRef, JOpDef, JOpDef, JNull>>)}
        \cup {JSeq(<<cond, JOpDef, JOpDef>>) : cond \in DocConds}

\* What may follow the first entry of an object
DocTrails == {<<>>, <<<<<<"d">>, JNull>>>>, <<<<<<"a">>, JNum(2)>>>>}

Docs ==
    {JObj(<<<<key, payload>>>> \o trail) :
         key \in DocKeys, payload \in DocPayloads, trail \in DocTrails}
        \cup {JObj(<<>>), JNull, JSeq(<<>>)}

\* destream_json::try_decode::<Scalar> of a document
DecodeAsScalar ==
    /\ asScalar = None
    /\ LET result == try_decode("Scalar", input)
           left == IF input[1] = "obj" THEN Scalar_visit_map_unread(input[2]) ELSE <<>>
       IN  asScalar' = <<"Some", result, Unread(result, left)>>
    /\ UNCHANGED <<input, asTCRef, dirVars, txnVars, scalarVars, lateVars,
                   libVars, parseVars, handlerVars>>

\* destream_json::try_decode::<TCRef> of a document
DecodeAsTCRef ==
    /\ asTCRef = None
    /\ LET result == try_decode("TCRef", input)
           left == IF input[1] = "obj" /\ input[2] # <<>>
                   THEN tcref_entry_unread(Head(input[2])[1], Tail(input[2]))
                   ELSE <<>>
       IN  asTCRef' = <<"Some", result, Unread(result, left)>>
    /\ UNCHANGED <<input, asScalar, dirVars, txnVars, scalarVars, lateVars,
                   libVars, parseVars, handlerVars>>

InitDecode ==
    /\ input \in Docs
    /\ asScalar = None
    /\ asTCRef = None
    /\ DirIdle
    /\ TxnIdle
    /\ ScalarIdle
    /\ LibraryIdle
    /\ ParseIdle
    /\ HandlerIdle
    /\ LateIdle

NextDecode ==
    \/ DecodeAsScalar
    \/ DecodeAsTCRef

SpecDecode == InitDecode /\ [][NextDecode]_vars

----------------------------------------------------------------------------
(* Properties of the decoders.                                             *)

FirstKey == Head(input[2])[1]

FirstValue == Head(input[2])[2]

IsObject == input[1] = "obj" /\ input[2] # <<>>

SingleEntry == IsObject /\ Len(input[2]) = 1

\* A key occurs twice among the entries of an object
HasDuplicateKey(entries) ==
    \E i, j \in 1..Len(entries) : i < j /\ entries[i][1] = entries[j][1]

IsIdKey(key) == ~StartsWith(key, "/") /\ ~StartsWith(key, "$")

\* C11: decoding as a Scalar an object in which one Id key occurs twice fails,
\* and so does decoding a POST OpRef whose parameter map has one key twice: no
\* decoded Map keeps only one of the two values.
C11_DuplicateKeysRejected ==
    asScalar # None =>
        /\ (IsObject /\ IsIdKey(FirstKey) /\ HasDuplicateKey(input[2]))
               => ~IsOk(asScalar[2])
        /\ (SingleEntry /\ FirstKey = <<"/", "a">> /\ FirstValue[1] = "obj"
                /\ HasDuplicateKey(FirstValue[2]))
               => ~IsOk(asScalar[2])

\* The labels of the encoding: the keys the map decoder reserves
ReservedLabels ==
    {OPREF_GET, OPREF_PUT, OPREF_POST, OPREF_DELETE,
     TCREF_IF, TCREF_COND, TCREF_WHILE, TCREF_FOR_EACH,
     OPDEF_GET, OPDEF_PUT, OPDEF_POST, OPDEF_DELETE}
        \cup {VALUE_PREFIX \o <<name>> : name \in {"none", "number", "string", "link"}}

\* The key is the string of a Link that is not a reserved label
IsLinkKey(key) ==
    /\ StartsWith(key, "/")
    /\ IsOk(LinkFromStr(key))
    /\ IsOk(PathFromStr(key))
    /\ PathFromStr(key)[2] \notin ReservedLabels

DecodedItems == Scalars_in_order(FirstValue[2])

\* C12: a single-entry object whose key is a Link and no reserved label,
\* decoded as a Scalar, routes on the shape of its value: a map gives a Post on
\* the Link, a sequence of 1 a Get, a sequence of 2 a Put, the empty sequence
\* the Link as a value (never an OpRef), and a sequence of 3 or more an error.
C12_LinkKeyRoutesOnShape ==
    (asScalar # None /\ SingleEntry /\ IsLinkKey(FirstKey)) =>
        LET link == LinkFromStr(FirstKey)[2]
            subject == SubjectLink(link)
            result == asScalar[2]
            n == Len(FirstValue[2])
        IN  /\ (FirstValue[1] = "obj" /\ IsOk(try_decode("MapScalar", FirstValue)))
                   => /\ IsOk(result)
                      /\ result[2] = ScalarRef(TCRefOp(OpRefPost(subject,
                                         try_decode("MapScalar", FirstValue)[2])))
            /\ (FirstValue[1] = "seq" /\ n = 0)
                   => /\ IsOk(result)
                      /\ result[2] = ScalarValue(ValueLink(link))
            /\ (FirstValue[1] = "seq" /\ n = 1 /\ IsOk(DecodedItems))
                   => /\ IsOk(result)
                      /\ result[2] = ScalarRef(TCRefOp(OpRefGet(subject, DecodedItems[2][1])))
            /\ (FirstValue[1] = "seq" /\ n = 2 /\ IsOk(DecodedItems))
                   => /\ IsOk(result)
                      /\ result[2] = ScalarRef(TCRefOp(OpRefPut(subject, DecodedItems[2][1],
                                                                DecodedItems[2][2])))
            /\ (FirstValue[1] = "seq" /\ n >= 3) => ~IsOk(result)

\* Every shape of C12 has been decoded: here the empty sequence
C12_Witness ==
    /\ asScalar # None
    /\ SingleEntry
    /\ IsLinkKey(FirstKey)
    /\ FirstValue = JSeq(<<>>)
    /\ asScalar[2] = Ok(ScalarValue(ValueLink(<<"a">>)))

C12_WitnessPut ==
    /\ asScalar # None
    /\ SingleEntry
    /\ IsLinkKey(FirstKey)
    /\ FirstValue[1] = "seq"
    /\ Len(FirstValue[2]) = 2
    /\ IsOk(asScalar[2])
    /\ asScalar[2][2][2][2][1] = "Put"

C12_WitnessTooLong ==
    /\ asScalar # None
    /\ SingleEntry
    /\ IsLinkKey(FirstKey)
    /\ FirstValue[1] = "seq"
    /\ Len(FirstValue[2]) = 3
    /\ ~IsOk(asScalar[2])

\* The string of a $-ref with a path behind it: "$x", "$x/a"
DollarKey(id, path) == <<"$", id>> \o (IF path = <<>> THEN <<>> ELSE FormatPath(path))

DollarIds == {"x"}

DollarSuffixes == {<<>>, <<"a">>}

\* A decoding result seen as a TCRef: the TCRef inside the Scalar::Ref
AsRef(result) ==
    IF ~IsOk(result) THEN result
    ELSE IF result[2][1] = "Ref" THEN Ok(result[2][2])
    ELSE Ok(<<"NotARef">>)

\* What C13 says of the TCRef decoded from the single entry of the document
DollarKeyShape(result) ==
    LET n == Len(FirstValue[2])
    IN  /\ \A id \in DollarIds, path \in DollarSuffixes :
               FirstKey = DollarKey(id, path) =>
                   LET subject == SubjectRef(id, path)
                   IN  /\ (FirstValue[1] = "seq" /\ n = 0 /\ path = <<>>)
                              => result = Ok(TCRefId(id))
                       /\ (FirstValue[1] = "seq" /\ n = 0 /\ path # <<>>) => ~IsOk(result)
                       /\ (FirstValue[1] = "seq" /\ n = 1 /\ IsOk(DecodedItems))
                              => result = Ok(TCRefOp(OpRefGet(subject, DecodedItems[2][1])))
                       /\ (FirstValue[1] = "seq" /\ n = 2 /\ IsOk(DecodedItems))
                              => result = Ok(TCRefOp(OpRefPut(subject, DecodedItems[2][1],
                                                              DecodedItems[2][2])))
                       /\ (FirstValue[1] = "obj" /\ IsOk(try_decode("MapScalar", FirstValue)))
                              => result = Ok(TCRefOp(OpRefPost(subject,
                                                 try_decode("MapScalar", FirstValue)[2])))
                       /\ (FirstValue[1] = "seq" /\ n >= 3) => ~IsOk(result)
        /\ (FirstKey = <<"$">> /\ FirstValue[1] = "seq" /\ n = 0) => ~IsOk(result)

\* C13: a single-entry object whose key starts with '$' decodes by the shape
\* of its value: the empty sequence gives TCRef::Id of the IdRef named by the
\* key (an error when the key has a /suffix or is '$' alone), a sequence of 1 a
\* Get, of 2 a Put and a map a Post, each on Subject::Ref(IdRef, suffix) split
\* at the first '/', and a sequence of 3 or more an error.
C13_DollarKeyRoutesOnShape ==
    /\ (asScalar # None /\ SingleEntry /\ StartsWith(FirstKey, "$"))
           => DollarKeyShape(AsRef(asScalar[2]))
    /\ (asTCRef # None /\ SingleEntry /\ StartsWith(FirstKey, "$"))
           => DollarKeyShape(asTCRef[2])

\* A Get on $x with the suffix /a has been decoded as a Scalar and as a TCRef
C13_Witness ==
    /\ asScalar # None
    /\ asTCRef # None
    /\ SingleEntry
    /\ FirstKey = <<"$", "x", "/", "a">>
    /\ FirstValue = JSeq(<<JNull>>)
    /\ asTCRef[2] = Ok(TCRefOp(OpRefGet(SubjectRef("x", <<"a">>), ScalarValue(ValueNone))))
    /\ asScalar[2] = Ok(ScalarRef(asTCRef[2][2]))

C13_WitnessId ==
    /\ asTCRef # None
    /\ SingleEntry
    /\ FirstValue = JSeq(<<>>)
    /\ asTCRef[2] = Ok(TCRefId("x"))

C13_WitnessSuffixRejected ==
    /\ asScalar # None
    /\ SingleEntry
    /\ FirstKey = <<"$", "x", "/", "a">>
    /\ FirstValue = JSeq(<<>>)
    /\ ~IsOk(asScalar[2])

\* The object made of the first entry of the document alone
FirstEntryAlone == JObj(<<Head(input[2])>>)

\* C14: in every classifying branch of the map decoder (the first key is a
\* label, a Link or a $-ref, not an Id), the entries after the first are read
\* and ignored: the decoder returns with no entry left unread and with the
\* result of the single-entry object.
C14_TrailingEntriesDrained ==
    /\ (asScalar # None /\ IsObject /\ ~IsIdKey(FirstKey)
            /\ IsOk(try_decode("Scalar", FirstEntryAlone)))
           => /\ asScalar[2] = try_decode("Scalar", FirstEntryAlone)
              /\ asScalar[3] = <<>>
    /\ (asTCRef # None /\ IsObject /\ ~IsIdKey(FirstKey)
            /\ IsOk(try_decode("TCRef", FirstEntryAlone)))
           => /\ asTCRef[2] = try_decode("TCRef", FirstEntryAlone)
              /\ asTCRef[3] = <<>>

IsLabelKey(label) == IsObject /\ FirstKey = FormatPath(label)

\* The payload of the first entry is a sequence of three documents that each
\* decode as a Scalar
ThreeScalars ==
    /\ FirstValue[1] = "seq"
    /\ Len(FirstValue[2]) = 3
    /\ IsOk(DecodedItems)

\* What C15 says of the TCRef decoded from the document
CondShape(result) ==
    /\ (IsLabelKey(TCREF_IF) /\ ThreeScalars)
           => IF DecodedItems[2][1][1] = "Ref"
              THEN result = Ok(TCRefIf(DecodedItems[2][1][2], DecodedItems[2][2],
                                       DecodedItems[2][3]))
              ELSE ~IsOk(result)
    /\ (IsLabelKey(TCREF_COND) /\ ThreeScalars)
           => IF DecodedItems[2][1][1] = "Ref"
              THEN (IsOk(try_decode("OpDef", FirstValue[2][2]))
                        /\ IsOk(try_decode("OpDef", FirstValue[2][3])))
                       => result = Ok(TCRefCond(DecodedItems[2][1][2],
                                                try_decode("OpDef", FirstValue[2][2])[2],
                                                try_decode("OpDef", FirstValue[2][3])[2]))
              ELSE ~IsOk(result)
    /\ (IsLabelKey(TCREF_WHILE) /\ ThreeScalars)
           => result = Ok(TCRefWhile(DecodedItems[2][1], DecodedItems[2][2],
                                     DecodedItems[2][3]))

\* C15: decoding the label if or cond fails whenever the condition, the first
\* element of the payload, is not a Scalar::Ref (a literal, a map, a tuple, an
\* Op definition), so no IfRef or CondOp has a condition that is not a ref; the
\* label while takes any Scalar as condition.
C15_CondMustBeRef ==
    /\ asScalar # None => CondShape(AsRef(asScalar[2]))
    /\ asTCRef # None => CondShape(asTCRef[2])

\* An If with the literal 1 as condition has been refused by both decoders
C15_Witness ==
    /\ asScalar # None
    /\ asTCRef # None
    /\ IsLabelKey(TCREF_IF)
    /\ FirstValue = JSeq(<<JNum(1), JOpDef, JOpDef>>)
    /\ ~IsOk(asScalar[2])
    /\ ~IsOk(asTCRef[2])

C15_WitnessWhileLiteral ==
    /\ asTCRef # None
    /\ IsLabelKey(TCREF_WHILE)
    /\ FirstValue = JSeq(<<JNum(1), JOpDef, JOpDef>>)
    /\ IsOk(asTCRef[2])

C15_WitnessCondRef ==
    /\ asScalar # None
    /\ IsLabelKey(TCREF_COND)
    /\ FirstValue = JSeq(<<JRef, JOpDef, JOpDef>>)
    /\ IsOk(asScalar[2])

C15_WitnessCondMap ==
    /\ asScalar # None
    /\ IsLabelKey(TCREF_COND)
    /\ FirstValue[1] = "seq"
    /\ Len(FirstValue[2]) = 3
    /\ FirstValue[2][1][1] = "obj"
    /\ FirstValue[2][1] # JRef
    /\ FirstValue[2][1] # JOpDef
    /\ ~IsOk(asScalar[2])

\* The Subject named by the first element of the payload sequence
PayloadSubject == Subject_from_stream(FirstValue[2][1])

\* What C20 says of the TCRef decoded from the single entry of the document
ExplicitLabelShape(result) ==
    LET n == Len(FirstValue[2])
        payload == FirstValue[1] = "seq" /\ n >= 1 /\ IsOk(PayloadSubject)
        second == try_decode("Scalar", FirstValue[2][2])
        third == try_decode("Scalar", FirstValue[2][3])
        params == try_decode("MapScalar", FirstValue[2][2])
    IN  /\ (IsLabelKey(OPREF_GET) /\ payload /\ n = 2 /\ IsOk(second))
               => result = Ok(TCRefOp(OpRefGet(PayloadSubject[2], second[2])))
        /\ (IsLabelKey(OPREF_PUT) /\ payload /\ n = 3 /\ IsOk(second) /\ IsOk(third))
               => result = Ok(TCRefOp(OpRefPut(PayloadSubject[2], second[2], third[2])))
        /\ (IsLabelKey(OPREF_POST) /\ payload /\ n = 2 /\ IsOk(params))
               => result = Ok(TCRefOp(OpRefPost(PayloadSubject[2], params[2])))
        /\ (IsLabelKey(OPREF_DELETE) /\ payload /\ n = 2 /\ IsOk(second))
               => result = Ok(TCRefOp(OpRefDelete(PayloadSubject[2], second[2])))

\* C20: a single-entry object keyed by the explicit label
\* /state/scalar/ref/op/<verb> decodes to the OpRef of that verb on the Subject
\* that is the first element of the payload, never on the label itself, as a
\* TCRef and as a Scalar.
C20_ExplicitLabelDecodes ==
    /\ (asTCRef # None /\ SingleEntry) => ExplicitLabelShape(asTCRef[2])
    /\ (asScalar # None /\ SingleEntry) => ExplicitLabelShape(AsRef(asScalar[2]))

----------------------------------------------------------------------------
(* The canonical form of a Scalar.                                         *)

\* The keys of the entries of an object are in strictly ascending order
Ascending(entries) ==
    \A i \in 1..(Len(entries) - 1) :
        Rank(entries[i][1][1]) < Rank(entries[i + 1][1][1])

\* C16: for every Scalar s, decoding encode(s) succeeds and encoding the
\* result again gives encode(s); a Map is written with its Ids in ascending
\* order and a Tuple with its elements in their order.
C16_CanonicalForm ==
    /\ out # None => IsOk(out[2])
    /\ again # None => again[2] = json[2]
    /\ (json # None /\ scalar[1] = "Map")
           => /\ json[2][1] = "obj"
              /\ Ascending(json[2][2])
              /\ Len(json[2][2]) = Len(scalar[2])
    /\ (json # None /\ scalar[1] = "Tuple")
           => /\ json[2][1] = "seq"
              /\ Len(json[2][2]) = Len(scalar[2])
              /\ \A i \in 1..Len(scalar[2]) : json[2][2][i] = Scalar_into_stream(scalar[2][i])

----------------------------------------------------------------------------
(* LibrarySchema and its codec.                                            *)

\* LibrarySchema::new
LibrarySchema_new(id, version, dependencies) ==
    <<"LibrarySchema", id, version, dependencies>>

\* encode_entry of a Link: the string of the Link
Link_into_stream(link) == JStr(LinkToString(link))

\* next_value::<Link>
Link_from_stream(doc) ==
    IF doc[1] # "str" THEN Err("expected a Link") ELSE LinkFromStr(doc[2])

\* next_value::<String>
String_from_stream(doc) ==
    IF doc[1] # "str" THEN Err("expected a string") ELSE Ok(doc[2])

\* next_value::<Vec<Link>>
RECURSIVE Links_in_order(_)
Links_in_order(items) ==
    IF items = <<>> THEN Ok(<<>>)
    ELSE LET first == Link_from_stream(Head(items))
         IN  IF ~IsOk(first) THEN first
             ELSE LET others == Links_in_order(Tail(items))
                  IN  IF ~IsOk(others) THEN others
                      ELSE Ok(<<first[2]>> \o others[2])

VecLink_from_stream(doc) ==
    IF doc[1] # "seq" THEN Err("expected a list of Links") ELSE Links_in_order(doc[2])

\* impl IntoStream for LibrarySchema
LibrarySchema_into_stream(s) ==
    JObj(<<<<<<"id">>, Link_into_stream(s[2])>>,
           <<<<"version">>, JStr(s[3])>>,
           <<<<"dependencies">>,
             JSeq([i \in 1..Len(s[4]) |-> Link_into_stream(s[4][i])])>>>>)

\* SchemaVisitor::visit_map with a version that defaults to the empty string
RECURSIVE SchemaVisitor_visit_map_default(_, _, _, _)
SchemaVisitor_visit_map_default(entries, id, version, dependencies) ==
    IF entries = <<>>
    THEN IF id = None THEN Err("missing id field")
         ELSE Ok(LibrarySchema_new(id[2], IF version = None THEN <<>> ELSE version[2],
                     IF dependencies = None THEN <<>> ELSE dependencies[2]))
    ELSE LET key == Head(entries)[1]
             value == Head(entries)[2]
         IN  IF key = <<"id">>
             THEN IF id # None THEN Err("duplicate id field")
                  ELSE LET link == Link_from_stream(value)
                       IN  IF ~IsOk(link) THEN link
                           ELSE SchemaVisitor_visit_map_default(Tail(entries), Some(link[2]),
                                                        version, dependencies)
             ELSE IF key = <<"version">>
             THEN IF version # None THEN Err("duplicate version field")
                  ELSE LET string == String_from_stream(value)
                       IN  IF ~IsOk(string) THEN string
                           ELSE SchemaVisitor_visit_map_default(Tail(entries), id,
                                                        Some(string[2]), dependencies)
             ELSE IF key = <<"dependencies">>
             THEN LET links == VecLink_from_stream(value)
                  IN  IF ~IsOk(links) THEN links
                      ELSE SchemaVisitor_visit_map_default(Tail(entries), id, version,
                                                           Some(links[2]))
             ELSE SchemaVisitor_visit_map_default(Tail(entries), id, version, dependencies)

\* SchemaVisitor::visit_map: the loop over the entries, then the three fields
RECURSIVE SchemaVisitor_visit_map(_, _, _, _)
SchemaVisitor_visit_map(entries, id, version, dependencies) ==
    IF entries = <<>>
    THEN IF id = None THEN Err("missing id field")
         ELSE IF version = None THEN Err("missing version field")
         ELSE Ok(LibrarySchema_new(id[2], version[2],
                     IF dependencies = None THEN <<>> ELSE dependencies[2]))
    ELSE LET key == Head(entries)[1]
             value == Head(entries)[2]
         IN  IF key = <<"id">>
             THEN IF id # None THEN Err("duplicate id field")
                  ELSE LET link == Link_from_stream(value)
                       IN  IF ~IsOk(link) THEN link
                           ELSE SchemaVisitor_visit_map(Tail(entries), Some(link[2]),
                                                        version, dependencies)
             ELSE IF key = <<"version">>
             THEN IF version # None THEN Err("duplicate version field")
                  ELSE LET string == String_from_stream(value)
                       IN  IF ~IsOk(string) THEN string
                           ELSE SchemaVisitor_visit_map(Tail(entries), id,
                                                        Some(string[2]), dependencies)
             ELSE IF key = <<"dependencies">>
             THEN LET links == VecLink_from_stream(value)
                  IN  IF ~IsOk(links) THEN links
                      ELSE SchemaVisitor_visit_map(Tail(entries), id, version, Some(links[2]))
             ELSE SchemaVisitor_visit_map(Tail(entries), id, version, dependencies)

\* impl FromStream for LibrarySchema: decode_map with SchemaVisitor
LibrarySchema_from_stream(doc) ==
    IF doc[1] # "obj" THEN Err("expected a library schema map")
    ELSE SchemaVisitor_visit_map(doc[2], None, None, None)

MaxSchemaEntries == 3

SchemaLinks == {<<"a">>, <<"lib", "acme">>}

SchemaVersions == {<<"1">>, <<"a">>}

SchemaDependencies ==
    {<<>>, <<<<"a">>>>, <<<<"lib", "acme">>, <<"a">>>>, <<<<"a">>, <<"a">>>>}

Schemas ==
    {LibrarySchema_new(id, version, dependencies) :
         id \in SchemaLinks, version \in SchemaVersions,
         dependencies \in SchemaDependencies}

\* The entries a foreign document is made of: well-formed and ill-formed
\* values of the three fields, and a key that is none of them
SchemaEntries ==
    {<<<<"id">>, JStr(<<"/", "a">>)>>, <<<<"id">>, JStr(<<"/", "lib", "/", "acme">>)>>,
     <<<<"id">>, JNum(1)>>,
     <<<<"version">>, JStr(<<"1">>)>>, <<<<"version">>, JNull>>,
     <<<<"dependencies">>, JSeq(<<>>)>>,
     <<<<"dependencies">>, JSeq(<<JStr(<<"/", "a">>)>>)>>,
     <<<<"name">>, JNull>>}

SchemaDocs == {JObj(entries) : entries \in SeqsUpTo(SchemaEntries, MaxSchemaEntries)}

\* destream_json::encode of the schema
EncodeSchema ==
    /\ schemaDoc = None
    /\ schemaDoc' = Some(LibrarySchema_into_stream(schema))
    /\ UNCHANGED <<schema, schemaOut, dirVars, txnVars, scalarVars, lateVars,
                   decodeVars, parseVars, handlerVars>>

\* A document written by another party arrives
ReceiveSchema(received) ==
    /\ schemaDoc = None
    /\ schemaDoc' = Some(received)
    /\ UNCHANGED <<schema, schemaOut, dirVars, txnVars, scalarVars, lateVars,
                   decodeVars, parseVars, handlerVars>>

\* destream_json::try_decode::<LibrarySchema>
DecodeSchema ==
    /\ schemaDoc # None
    /\ schemaOut = None
    /\ schemaOut' = Some(LibrarySchema_from_stream(schemaDoc[2]))
    /\ UNCHANGED <<schema, schemaDoc, dirVars, txnVars, scalarVars, lateVars,
                   decodeVars, parseVars, handlerVars>>

InitLibrary ==
    /\ schema \in Schemas
    /\ schemaDoc = None
    /\ schemaOut = None
    /\ DirIdle
    /\ TxnIdle
    /\ ScalarIdle
    /\ DecodeIdle
    /\ ParseIdle
    /\ HandlerIdle
    /\ LateIdle

NextLibrary ==
    \/ EncodeSchema
    \/ \E received \in SchemaDocs : ReceiveSchema(received)
    \/ DecodeSchema

SpecLibrary == InitLibrary /\ [][NextLibrary]_vars

----------------------------------------------------------------------------
(* Properties of the LibrarySchema codec.                                  *)

SchemaKeys(doc) == {doc[2][i][1] : i \in 1..Len(doc[2])}

Encoded == schemaDoc # None /\ schemaDoc[2] = LibrarySchema_into_stream(schema)

\* C17: encoding a LibrarySchema writes an object with exactly the keys id,
\* version and dependencies, and decoding it gives an equal schema; an object
\* with no dependencies key decodes to a schema with empty dependencies, and
\* an object with no id or no version fails.
C17_SchemaRoundTrip ==
    /\ Encoded
           => /\ schemaDoc[2][1] = "obj"
              /\ Len(schemaDoc[2][2]) = 3
              /\ SchemaKeys(schemaDoc[2]) = {<<"id">>, <<"version">>, <<"dependencies">>}
    /\ (Encoded /\ schemaOut # None) => SameResult(schemaOut[2], Ok(schema))
    /\ (schemaOut # None /\ IsOk(schemaOut[2])
            /\ <<"dependencies">> \notin SchemaKeys(schemaDoc[2]))
           => schemaOut[2][2][4] = <<>>
    /\ (schemaOut # None
            /\ (<<"id">> \notin SchemaKeys(schemaDoc[2])
                    \/ <<"version">> \notin SchemaKeys(schemaDoc[2])))
           => ~IsOk(schemaOut[2])

\* A schema with two dependencies has gone through the codec
C17_Witness ==
    /\ Encoded
    /\ schemaOut # None
    /\ Len(schema[4]) = 2
    /\ schema[4][1] # schema[4][2]
    /\ schemaOut[2] = Ok(schema)

C17_WitnessNoDependencies ==
    /\ schemaOut # None
    /\ IsOk(schemaOut[2])
    /\ <<"dependencies">> \notin SchemaKeys(schemaDoc[2])
    /\ schemaOut[2][2][4] = <<>>

C17_WitnessNoVersion ==
    /\ schemaOut # None
    /\ <<"id">> \in SchemaKeys(schemaDoc[2])
    /\ <<"version">> \notin SchemaKeys(schemaDoc[2])
    /\ ~IsOk(schemaOut[2])

----------------------------------------------------------------------------
(* parse_route_path.                                                       *)

\* str::trim_start and str::trim
RECURSIVE TrimStart(_)
TrimStart(s) ==
    IF s # <<>> /\ Head(s) \in Whitespace THEN TrimStart(Tail(s)) ELSE s

RECURSIVE TrimEnd(_)
TrimEnd(s) ==
    IF s # <<>> /\ s[Len(s)] \in Whitespace THEN TrimEnd(SubSeq(s, 1, Len(s) - 1)) ELSE s

Trim(s) == TrimEnd(TrimStart(s))

\* str::strip_prefix('/').unwrap_or(s)
StripSlash(s) == IF s # <<>> /\ Head(s) = "/" THEN Tail(s) ELSE s

\* str::split('/'): the pieces between the slashes, the empty ones included
RECURSIVE Split(_)
Split(s) ==
    IF \E i \in 1..Len(s) : s[i] = "/"
    THEN LET i == FindSlash(s)
         IN  <<SubSeq(s, 1, i - 1)>> \o Split(SubSeq(s, i + 1, Len(s)))
    ELSE <<s>>

\* PathSegment::from_str
PathSegment_from_str(segment) ==
    IF Len(segment) = 1 /\ IsWord(segment[1]) THEN Ok(segment[1])
    ELSE Err(BadRequest(<<"invalid", "route", "segment">>))

\* Iterator::collect into a Result: the first error, or all the segments
RECURSIVE CollectSegments(_)
CollectSegments(pieces) ==
    IF pieces = <<>> THEN Ok(<<>>)
    ELSE LET first == PathSegment_from_str(Head(pieces))
         IN  IF ~IsOk(first) THEN first
             ELSE LET others == CollectSegments(Tail(pieces))
                  IN  IF ~IsOk(others) THEN others
                      ELSE Ok(<<first[2]>> \o others[2])

\* parse_route_path without the call of trim
parse_route_path_untrimmed(path) ==
    IF path = <<>>
    THEN Err(BadRequest(<<"route", "paths", "must", "not", "be", "empty">>))
    ELSE LET trimmed == StripSlash(path)
         IN  IF trimmed = <<>>
             THEN Err(BadRequest(<<"route", "paths", "must", "contain", "at", "least",
                                   "one", "segment">>))
             ELSE CollectSegments(Split(trimmed))

\* parse_route_path
parse_route_path(path) ==
    IF path = <<>>
    THEN Err(BadRequest(<<"route", "paths", "must", "not", "be", "empty">>))
    ELSE LET trimmed == StripSlash(Trim(path))
         IN  IF trimmed = <<>>
             THEN Err(BadRequest(<<"route", "paths", "must", "contain", "at", "least",
                                   "one", "segment">>))
             ELSE CollectSegments(Split(trimmed))

MaxPathChars == 4

PathChars == {"/", " ", "a", "b"}

\* The strings given to parse_route_path; two tokens that are identifiers
\* never stand side by side, as they would read as one identifier
PathStrings ==
    {s \in SeqsUpTo(PathChars, MaxPathChars) :
         \A i \in 1..(Len(s) - 1) : ~(IsWord(s[i]) /\ IsWord(s[i + 1]))}

ParseRoutePath ==
    /\ segments = None
    /\ segments' = Some(parse_route_path(pathStr))
    /\ UNCHANGED <<pathStr, dirVars, txnVars, scalarVars, lateVars, decodeVars, libVars,
                   handlerVars>>

InitParse ==
    /\ pathStr \in PathStrings
    /\ segments = None
    /\ DirIdle
    /\ TxnIdle
    /\ ScalarIdle
    /\ DecodeIdle
    /\ LibraryIdle
    /\ HandlerIdle
    /\ LateIdle

NextParse == ParseRoutePath

SpecParse == InitParse /\ [][NextParse]_vars

----------------------------------------------------------------------------
(* Properties of parse_route_path.                                         *)

\* The lists of segments a string of the model can name
SegmentLists == SeqsUpTo({t \in PathChars : IsWord(t)}, MaxPathChars) \ {<<>>}

\* The string is the segments joined with '/', with or without a leading '/'
Names(s, segs) == s = PathTokens(segs) \/ s = Tail(PathTokens(segs))

IsBadRequest(result) == result[1] = "Err" /\ result[2][1] = "BadRequest"

\* What parse_route_path returns for the string s read as it stands
ParsesAs(s) ==
    /\ (s = <<>> \/ (\A i \in 1..Len(s) : s[i] \in Whitespace) \/ s = <<"/">>)
           => IsBadRequest(segments[2])
    /\ IsOk(segments[2]) => (segments[2][2] \in SegmentLists /\ Names(s, segments[2][2]))
    /\ \A segs \in SegmentLists : Names(s, segs) => segments[2] = Ok(segs)
    /\ IsOk(segments[2]) \/ IsBadRequest(segments[2])

\* C18 as stated: the empty string, whitespace alone and "/" alone give
\* BadRequest; otherwise one leading '/' is removed, the rest is split on '/',
\* and the segments are returned in order only if each of them is a
\* PathSegment, so that an empty segment fails the call.
C18_ParseRoutePath ==
    segments # None => ParsesAs(pathStr)

\* C18 amended: the same, of the string with the whitespace around it removed
C18_ParseRoutePathTrimmed ==
    segments # None =>
        /\ ParsesAs(Trim(pathStr))
        /\ (\A i \in 1..Len(pathStr) : pathStr[i] \in Whitespace)
               => IsBadRequest(segments[2])

\* A path with whitespace around it has been parsed
C18_Witness ==
    /\ segments # None
    /\ pathStr = <<" ", "/", "a", " ">>
    /\ segments[2] = Ok(<<"a">>)

C18_WitnessDoubledSlash ==
    /\ segments # None
    /\ pathStr = <<"/", "a", "/", "/">>
    /\ IsBadRequest(segments[2])

C18_WitnessInnerSpace ==
    /\ segments # None
    /\ pathStr = <<"/", "a", " ", "b">>
    /\ IsBadRequest(segments[2])

C18_WitnessTwoSegments ==
    /\ segments # None
    /\ pathStr = <<"/", "a", "/", "b">>
    /\ segments[2] = Ok(<<"a", "b">>)

----------------------------------------------------------------------------
(* Handlers and their verbs.                                               *)

\* enum Method
Method == {"Get", "Put", "Post", "Delete"}

\* std::any::type_name::<Self>() of the handler type H of a Dir<H>
HandlerTypeName == "H"

\* TCError::method_not_allowed(method, type name), by Handler::method_not_supported
method_not_supported(method, type_name) == <<"MethodNotAllowed", method, type_name>>

\* The four uses of define_verb_handler: the function of each trait
VerbFns == {"get", "put", "post", "delete"}

\* define_verb_handler with Method::Get in every trait
VerbMethod_get(fn_name) == "Get"

\* define_verb_handler!(trait, fn, method): the Method each function reports
VerbMethod(fn_name) ==
    CASE fn_name = "get" -> "Get"
      [] fn_name = "put" -> "Put"
      [] fn_name = "post" -> "Post"
      [] fn_name = "delete" -> "Delete"

\* The default body of a verb function: no future, the error
verb_default(fn_name, type_name) ==
    Err(method_not_supported(VerbMethod(fn_name), type_name))

\* The Dirs the handlers are called in: what from_routes returns for these lists
MountedLists ==
    {<<<<<<"a">>, HandlerAt(1)>>>>,
     <<<<<<"a", "b">>, HandlerAt(1)>>, <<<<"b">>, HandlerAt(2)>>>>,
     <<<<<<"a", "a">>, HandlerAt(1)>>, <<<<"a", "b">>, HandlerAt(2)>>,
       <<<<"b">>, HandlerAt(3)>>>>}

\* The verbs the handler type implements itself
OverrideSets == {{}, {"Get"}, {"Put", "Post"}}

\* A verb function of the handler that route returned is called
CallVerb(fn_name) ==
    /\ lookup[1] = "Routed"
    /\ lookup[3] # None
    /\ called = None
    /\ called' = <<"Called", fn_name, lookup[3][2],
                   IF VerbMethod(fn_name) \in overrides
                   THEN Ok(<<"Fut", lookup[3][2], fn_name>>)
                   ELSE verb_default(fn_name, HandlerTypeName)>>
    /\ UNCHANGED <<dirVars, txnVars, scalarVars, lateVars, decodeVars, libVars, parseVars,
                   overrides, relookup>>

\* Route::route after the call
RouteAgain(path) ==
    /\ called # None
    /\ relookup = <<"Idle">>
    /\ relookup' = <<"Routed", path, route_path(dir, path)>>
    /\ UNCHANGED <<dirVars, txnVars, scalarVars, lateVars, decodeVars, libVars, parseVars,
                   overrides, called>>

InitHandler ==
    /\ routes \in MountedLists
    /\ dir = from_routes(routes)[2]
    /\ before = dir
    /\ built = <<"Ok">>
    /\ lookup = <<"Idle">>
    /\ overrides \in OverrideSets
    /\ called = None
    /\ relookup = <<"Idle">>
    /\ TxnIdle
    /\ ScalarIdle
    /\ DecodeIdle
    /\ LibraryIdle
    /\ ParseIdle
    /\ LateIdle

NextHandler ==
    \/ \E path \in LookupPaths : RouteLookup(path)
    \/ \E fn_name \in VerbFns : CallVerb(fn_name)
    \/ \E path \in LookupPaths : RouteAgain(path)

SpecHandler == InitHandler /\ [][NextHandler]_vars

----------------------------------------------------------------------------
(* Properties of the handlers.                                             *)

\* The verb named by each function, as the claim lists them
VerbOf == {<<"get", "Get">>, <<"put", "Put">>, <<"post", "Post">>, <<"delete", "Delete">>}

\* The handler mounted at the path in the list of routes, if any
MountedAt(path) ==
    IF \E i \in 1..Len(routes) : routes[i][1] = path
    THEN Some(routes[CHOOSE i \in 1..Len(routes) : routes[i][1] = path][2])
    ELSE None

\* C19: for each of the four verbs, a handler that does not override the verb
\* returns at once the error MethodNotAllowed with that verb and the type name
\* of the handler and no future; the Dir and the other handlers are as they
\* were, and a later lookup answers as before the call.
C19_DefaultVerbNotAllowed ==
    \A pair \in VerbOf :
        (called # None /\ called[2] = pair[1] /\ pair[2] \notin overrides) =>
            /\ called[4] = Err(<<"MethodNotAllowed", pair[2], HandlerTypeName>>)
            /\ dir = from_routes(routes)[2]
            /\ relookup[1] = "Routed" => relookup[3] = MountedAt(relookup[2])
            /\ (relookup[1] = "Routed" /\ relookup[2] = lookup[2])
                   => relookup[3] = lookup[3]

\* The default delete has been called and the handler found again afterwards
C19_Witness ==
    /\ called # None
    /\ called[2] = "delete"
    /\ "Delete" \notin overrides
    /\ called[4][1] = "Err"
    /\ relookup[1] = "Routed"
    /\ relookup[3] = Some(called[3])

C19_WitnessOverridden ==
    /\ called # None
    /\ called[2] = "put"
    /\ "Put" \in overrides
    /\ IsOk(called[4])

----------------------------------------------------------------------------
(* The arity of the control-flow labels.                                   *)

ControlFlowLabels == {TCREF_IF, TCREF_COND, TCREF_WHILE, TCREF_FOR_EACH}

\* The third element of the payload is a string that names an Id
ThirdIsId ==
    /\ FirstValue[2][3][1] = "str"
    /\ Len(FirstValue[2][3][2]) = 1
    /\ FirstValue[2][3][2][1] \notin Delimiters \cup Whitespace

\* What C21 says of a decoding result of the document
ArityShape(result) ==
    /\ \A label \in ControlFlowLabels :
           (IsLabelKey(label) /\ (FirstValue[1] # "seq" \/ Len(FirstValue[2]) # 3))
               => ~IsOk(result)
    /\ (IsLabelKey(TCREF_FOR_EACH) /\ FirstValue[1] = "seq" /\ Len(FirstValue[2]) = 3
            /\ ~ThirdIsId)
           => ~IsOk(result)

\* C21: the payload of a control-flow label is a sequence of exactly 3
\* elements: if, cond, while and for_each fail on 0, 1, 2, 4 or more elements,
\* and for_each fails as well unless its third element is a string that is an
\* Id.
C21_ControlFlowArity ==
    /\ asScalar # None => ArityShape(asScalar[2])
    /\ asTCRef # None => ArityShape(asTCRef[2])

\* A cond with a fourth element has been refused by both decoders
C21_Witness ==
    /\ asScalar # None
    /\ asTCRef # None
    /\ IsLabelKey(TCREF_COND)
    /\ FirstValue = JSeq(<<JRef, JOpDef, JOpDef, JNull>>)
    /\ ~IsOk(asScalar[2])
    /\ ~IsOk(asTCRef[2])

C21_WitnessForEachName ==
    /\ asTCRef # None
    /\ IsLabelKey(TCREF_FOR_EACH)
    /\ FirstValue = JSeq(<<JRef, JOpDef, JStr(<<"/", "a">>)>>)
    /\ ~IsOk(asTCRef[2])

C21_WitnessForEach ==
    /\ asTCRef # None
    /\ IsLabelKey(TCREF_FOR_EACH)
    /\ FirstValue = JSeq(<<JRef, JOpDef, JStr(<<"a">>)>>)
    /\ IsOk(asTCRef[2])

----------------------------------------------------------------------------
(* Scalar::walk, Scalar::walk_tcref and OpDef::walk_scalars.               *)

Reverse(seq) == [i \in 1..Len(seq) |-> seq[Len(seq) + 1 - i]]

\* BTreeMap::values: the values in the order of the keys
values(map) == [i \in 1..Len(map) |-> map[i][2]]

\* ScalarWalk::new: the stack is a Vec whose last element is the top
ScalarWalk_new(root) == <<root>>

\* ScalarWalk::next pushing the children in their own order
ScalarWalk_next_forward(stack) ==
    IF stack = <<>> THEN <<stack, None>>
    ELSE LET next == stack[Len(stack)]
             popped == SubSeq(stack, 1, Len(stack) - 1)
             pushed == CASE next[1] = "Map" -> values(next[2])
                         [] next[1] = "Tuple" -> next[2]
                         [] OTHER -> <<>>
         IN  <<popped \o pushed, Some(next)>>

\* ScalarWalk::next descending into the branches of an If as well
ScalarWalk_next_into_refs(stack) ==
    IF stack = <<>> THEN <<stack, None>>
    ELSE LET next == stack[Len(stack)]
             popped == SubSeq(stack, 1, Len(stack) - 1)
             pushed == CASE next[1] = "Map" -> Reverse(values(next[2]))
                         [] next[1] = "Tuple" -> Reverse(next[2])
                         [] next[1] = "Ref" /\ next[2][1] = "If" ->
                                Reverse(<<next[2][3], next[2][4]>>)
                         [] OTHER -> <<>>
         IN  <<popped \o pushed, Some(next)>>

\* ScalarWalk::next: the stack after the call and the item returned
ScalarWalk_next(stack) ==
    IF stack = <<>> THEN <<stack, None>>
    ELSE LET next == stack[Len(stack)]
             popped == SubSeq(stack, 1, Len(stack) - 1)
             pushed == CASE next[1] = "Map" -> Reverse(values(next[2]))
                         [] next[1] = "Tuple" -> Reverse(next[2])
                         [] OTHER -> <<>>
         IN  <<popped \o pushed, Some(next)>>

\* The next of walk().filter_map(..): the inner iterator is advanced until it
\* gives a Scalar::Ref, whose TCRef is returned, or ends
RECURSIVE walk_tcref_next(_)
walk_tcref_next(stack) ==
    LET step == ScalarWalk_next(stack)
    IN  IF step[2] = None THEN step
        ELSE IF step[2][2][1] = "Ref" THEN <<step[1], Some(step[2][2][2])>>
        ELSE walk_tcref_next(step[1])

\* OpDef::form
form(op_def) ==
    CASE op_def[1] = "Get" -> op_def[3]
      [] op_def[1] = "Put" -> op_def[4]
      [] op_def[1] = "Post" -> op_def[2]
      [] op_def[1] = "Delete" -> op_def[3]

\* OpDef::last_id answering the first binding
last_id_first(op_def) ==
    IF form(op_def) = <<>> THEN None
    ELSE Some(form(op_def)[1][1])

\* OpDef::last_id
last_id(op_def) ==
    IF form(op_def) = <<>> THEN None
    ELSE Some(form(op_def)[Len(form(op_def))][1])

\* OpDefScalarWalk::new
OpDefScalarWalk_new(op_def) == <<form(op_def), None>>

\* OpDefScalarWalk::next: the rest of form_iter, current and the item
RECURSIVE OpDefScalarWalk_next(_, _)
OpDefScalarWalk_next(form_iter, current) ==
    LET step == IF current = None THEN <<<<>>, None>> ELSE ScalarWalk_next(current[2])
    IN  IF step[2] # None THEN <<form_iter, Some(step[1]), step[2]>>
        ELSE IF form_iter = <<>> THEN <<form_iter, current, None>>
        ELSE OpDefScalarWalk_next(Tail(form_iter), Some(ScalarWalk_new(Head(form_iter)[2])))

\* The scalars that are walked: leaves, refs and op definitions that hold
\* scalars of their own, and tuples and maps nested in each other
WalkLeaves ==
    {ScalarDefault,
     ScalarRef(TCRefId("x")),
     ScalarRef(TCRefOp(OpRefPut(SubjectLink(<<"a">>), ScalarRef(TCRefId("y")),
                                ScalarTuple(<<ScalarRef(TCRefId("z"))>>)))),
     ScalarRef(TCRefOp(OpRefPost(SubjectRef("x", <<>>),
                                 <<<<"a", ScalarRef(TCRefId("y"))>>>>))),
     ScalarRef(TCRefIf(TCRefId("x"), ScalarRef(TCRefId("y")),
                       ScalarMap(<<<<"a", ScalarRef(TCRefId("z"))>>>>))),
     ScalarRef(TCRefWhile(ScalarRef(TCRefId("y")), ScalarOp(OpDefPost(<<>>)),
                          ScalarTuple(<<ScalarRef(TCRefId("y"))>>))),
     ScalarRef(TCRefForEach(ScalarTuple(<<ScalarRef(TCRefId("z"))>>),
                            ScalarOp(OpDefPost(<<<<"a", ScalarRef(TCRefId("y"))>>>>)), "a")),
     ScalarOp(OpDefGet("k", <<<<"a", ScalarRef(TCRefId("y"))>>>>))}

WalkFlat ==
    {ScalarTuple(items) : items \in SeqsUpTo(WalkLeaves, MaxTupleLen)}
        \cup {ScalarMap(<<<<k, v>>>>) : k \in {"a", "b"}, v \in WalkLeaves}
        \cup {ScalarMap(<<<<"a", v>>, <<"b", w>>>>) : v \in WalkLeaves, w \in WalkLeaves}

WalkInner ==
    {ScalarDefault,
     ScalarRef(TCRefId("x")),
     ScalarTuple(<<>>),
     ScalarTuple(<<ScalarRef(TCRefId("y")), ScalarDefault>>),
     ScalarMap(<<<<"a", ScalarDefault>>, <<"b", ScalarRef(TCRefId("z"))>>>>),
     ScalarMap(<<<<"b", ScalarTuple(<<ScalarRef(TCRefId("y")), ScalarRef(TCRefId("x"))>>)>>>>)}

WalkNested ==
    {ScalarTuple(items) : items \in SeqsUpTo(WalkInner, MaxTupleLen)}
        \cup {ScalarMap(<<<<"a", v>>, <<"c", w>>>>) : v \in WalkInner, w \in WalkInner}

WalkDeep ==
    {ScalarTuple(<<outer, ScalarRef(TCRefId("w"))>>) : outer \in WalkNested}
        \cup {ScalarMap(<<<<"a", outer>>, <<"d", ScalarDefault>>>>) : outer \in WalkNested}

WalkRoots == WalkLeaves \cup WalkFlat \cup WalkNested \cup WalkDeep

\* The op definitions that are walked: each verb over forms of bindings whose
\* scalars are leaves, tuples and maps; a Vec may name an Id twice
WalkBindings == {<<id, bound>> : id \in {"a", "b"}, bound \in WalkInner}

WalkOpDefs ==
    {OpDefGet("k", bindings) : bindings \in SeqsUpTo(WalkBindings, MaxTupleLen)}
        \cup {OpDefPut("k", "v", bindings) : bindings \in SeqsUpTo(WalkBindings, MaxTupleLen)}
        \cup {OpDefPost(bindings) : bindings \in SeqsUpTo(WalkBindings, MaxTupleLen)}
        \cup {OpDefDelete("k", bindings) : bindings \in SeqsUpTo(WalkBindings, MaxTupleLen)}

\* Scalar::walk
walk ==
    /\ walker = None
    /\ walker' = <<"ScalarWalk", ScalarWalk_new(walked)>>
    /\ walked \in WalkRoots
    /\ UNCHANGED <<walked, yielded, ended, last>>
    /\ UNCHANGED <<earlyVars, subjVars, idVars, claimVars, mapVars>>

\* Scalar::walk_tcref
walk_tcref ==
    /\ walker = None
    /\ walked \in WalkRoots
    /\ walker' = <<"FilterMap", ScalarWalk_new(walked)>>
    /\ UNCHANGED <<walked, yielded, ended, last>>
    /\ UNCHANGED <<earlyVars, subjVars, idVars, claimVars, mapVars>>

\* OpDef::walk_scalars
walk_scalars ==
    /\ walker = None
    /\ walked \in WalkOpDefs
    /\ walker' = <<"OpDefScalarWalk">> \o OpDefScalarWalk_new(walked)
    /\ UNCHANGED <<walked, yielded, ended, last>>
    /\ UNCHANGED <<earlyVars, subjVars, idVars, claimVars, mapVars>>

\* OpDef::last_id, asked of the op definition being walked
LastId ==
    /\ walker # None
    /\ walker[1] = "OpDefScalarWalk"
    /\ last = None
    /\ last' = Some(last_id(walked))
    /\ UNCHANGED <<walked, walker, yielded, ended>>
    /\ UNCHANGED <<earlyVars, subjVars, idVars, claimVars, mapVars>>

\* The effect of one call of next that returned item
Returned(item) ==
    /\ yielded' = IF item = None THEN yielded ELSE Append(yielded, item[2])
    /\ ended' = (item = None)
    /\ UNCHANGED <<walked, last>>
    /\ UNCHANGED <<earlyVars, subjVars, idVars, claimVars, mapVars>>

\* One call of <ScalarWalk as Iterator>::next
ScalarWalkNext ==
    /\ walker # None
    /\ walker[1] = "ScalarWalk"
    /\ LET step == ScalarWalk_next(walker[2])
       IN  /\ walker' = <<"ScalarWalk", step[1]>>
           /\ Returned(step[2])

\* One call of next on the iterator of walk_tcref
TCRefWalkNext ==
    /\ walker # None
    /\ walker[1] = "FilterMap"
    /\ LET step == walk_tcref_next(walker[2])
       IN  /\ walker' = <<"FilterMap", step[1]>>
           /\ Returned(step[2])

\* One call of <OpDefScalarWalk as Iterator>::next
OpDefWalkNext ==
    /\ walker # None
    /\ walker[1] = "OpDefScalarWalk"
    /\ LET step == OpDefScalarWalk_next(walker[2], walker[3])
       IN  /\ walker' = <<"OpDefScalarWalk", step[1], step[2]>>
           /\ Returned(step[3])

InitWalk ==
    /\ MapIdle
    /\ DirIdle /\ TxnIdle /\ ScalarIdle
    /\ DecodeIdle /\ LibraryIdle /\ ParseIdle /\ HandlerIdle
    /\ SubjectIdle /\ TxnIdIdle /\ ClaimIdle
    /\ walked \in WalkRoots \cup WalkOpDefs
    /\ walker = None
    /\ yielded = <<>>
    /\ ended = FALSE
    /\ last = None

NextWalk ==
    \/ walk
    \/ walk_tcref
    \/ walk_scalars
    \/ LastId
    \/ ScalarWalkNext
    \/ TCRefWalkNext
    \/ OpDefWalkNext

SpecWalk == InitWalk /\ [][NextWalk]_vars

----------------------------------------------------------------------------
(* Properties of the walks.                                                *)

\* The children of a node: those of a Map by ascending Id, those of a Tuple by
\* index, none of any other node
ChildrenOf(node) ==
    CASE node[1] = "Map" ->
             [i \in 1..Len(node[2]) |->
                 LET at == CHOOSE j \in 1..Len(node[2]) :
                               Cardinality({k \in 1..Len(node[2]) :
                                   Rank(node[2][k][1]) < Rank(node[2][j][1])}) = i - 1
                 IN  node[2][at][2]]
      [] node[1] = "Tuple" -> node[2]
      [] OTHER -> <<>>

\* The pre-order of the tree under a node: the node, then the whole subtree of
\* each child in turn
RECURSIVE PreOrder(_)
RECURSIVE PreOrderAll(_)
PreOrderAll(nodes) ==
    IF nodes = <<>> THEN <<>> ELSE PreOrder(Head(nodes)) \o PreOrderAll(Tail(nodes))

PreOrder(node) == <<node>> \o PreOrderAll(ChildrenOf(node))

IsRef(node) == node[1] = "Ref"

\* The TCRefs of the Scalar::Ref nodes of a sequence, in its order
RefsOf(nodes) ==
    LET refs == SelectSeq(nodes, IsRef)
    IN  [i \in 1..Len(refs) |-> refs[i][2]]

\* The calls of next so far have returned the items of expected, one by one
\* and in order, and None only after the last of them
Yields(expected) ==
    /\ IsPrefix(yielded, expected)
    /\ ended => yielded = expected

\* C22: Scalar::walk yields the pre-order of the tree spanned by Map and Tuple
\* nesting (root first, Map children by ascending Id, Tuple children by index,
\* a whole subtree before the next sibling), every node once, and then ends;
\* walk_tcref yields the TCRefs of the Scalar::Ref nodes of that sequence in
\* the same order.
C22_WalkIsPreOrder ==
    /\ (walker # None /\ walker[1] = "ScalarWalk") => Yields(PreOrder(walked))
    /\ (walker # None /\ walker[1] = "FilterMap") => Yields(RefsOf(PreOrder(walked)))

\* A walk over a map in a tuple has ended after a node that follows the map's
\* subtree
C22_Witness ==
    /\ walker # None
    /\ walker[1] = "ScalarWalk"
    /\ ended
    /\ walked = ScalarTuple(<<ScalarTuple(<<
                   ScalarMap(<<<<"a", ScalarDefault>>, <<"b", ScalarRef(TCRefId("z"))>>>>),
                   ScalarRef(TCRefId("x"))>>), ScalarRef(TCRefId("w"))>>)
    /\ Len(yielded) = Len(PreOrder(walked))
    /\ yielded[Len(yielded)] = ScalarRef(TCRefId("w"))

C22_WitnessRefs ==
    /\ walker # None
    /\ walker[1] = "FilterMap"
    /\ ended
    /\ walked = ScalarTuple(<<ScalarTuple(<<
                   ScalarMap(<<<<"a", ScalarDefault>>, <<"b", ScalarRef(TCRefId("z"))>>>>),
                   ScalarRef(TCRefId("x"))>>), ScalarRef(TCRefId("w"))>>)
    /\ yielded = <<TCRefId("z"), TCRefId("x"), TCRefId("w")>>

\* The bindings of an op definition: the last field of each of its variants
BindingsOf(op_def) == op_def[Len(op_def)]

\* The sequence Scalar::walk yields for a scalar: what next returns until None
RECURSIVE Drain(_)
Drain(stack) ==
    LET step == ScalarWalk_next(stack)
    IN  IF step[2] = None THEN <<>> ELSE <<step[2][2]>> \o Drain(step[1])

RECURSIVE WalkEach(_)
WalkEach(bindings) ==
    IF bindings = <<>> THEN <<>>
    ELSE Drain(ScalarWalk_new(Head(bindings)[2])) \o WalkEach(Tail(bindings))

\* C23: OpDef::walk_scalars yields the Scalar::walk sequences of the scalars of
\* the bindings, joined in form order; nothing for an empty form, no binding
\* skipped, ending after the last binding; last_id is the Id of the final
\* binding, None for an empty form.
C23_WalkScalarsJoinsWalks ==
    (walker # None /\ walker[1] = "OpDefScalarWalk") =>
        /\ Yields(WalkEach(BindingsOf(walked)))
        /\ (ended /\ BindingsOf(walked) = <<>>) => yielded = <<>>
        /\ last # None =>
               last[2] = IF BindingsOf(walked) = <<>> THEN None
                         ELSE Some(BindingsOf(walked)[Len(BindingsOf(walked))][1])

\* The walk of a Put with two bindings, a tuple and a map, has ended and
\* last_id has named the second binding
C23_Witness ==
    /\ walker # None
    /\ walker[1] = "OpDefScalarWalk"
    /\ ended
    /\ walked = OpDefPut("k", "v",
           <<<<"b", ScalarTuple(<<ScalarRef(TCRefId("y")), ScalarDefault>>)>>,
             <<"a", ScalarMap(<<<<"a", ScalarDefault>>, <<"b", ScalarRef(TCRefId("z"))>>>>)>>>>)
    /\ Len(yielded) = 6
    /\ last = Some(Some("a"))

C23_WitnessEmpty ==
    /\ walker # None
    /\ walker[1] = "OpDefScalarWalk"
    /\ ended
    /\ walked = OpDefPost(<<>>)
    /\ yielded = <<>>
    /\ last = Some(None)

\* The number of nodes of the tree spanned by Map and Tuple nesting alone
RECURSIVE SkeletonSize(_)
RECURSIVE SkeletonSizeAll(_)
SkeletonSizeAll(nodes) ==
    IF nodes = <<>> THEN 0 ELSE SkeletonSize(Head(nodes)) + SkeletonSizeAll(Tail(nodes))

SkeletonSize(node) ==
    IF node[1] = "Map" THEN 1 + SkeletonSizeAll([i \in 1..Len(node[2]) |-> node[2][i][2]])
    ELSE IF node[1] = "Tuple" THEN 1 + SkeletonSizeAll(node[2])
    ELSE 1

\* The number of Scalar::Ref nodes of that tree
RECURSIVE SkeletonRefs(_)
RECURSIVE SkeletonRefsAll(_)
SkeletonRefsAll(nodes) ==
    IF nodes = <<>> THEN 0 ELSE SkeletonRefs(Head(nodes)) + SkeletonRefsAll(Tail(nodes))

SkeletonRefs(node) ==
    IF node[1] = "Map" THEN SkeletonRefsAll([i \in 1..Len(node[2]) |-> node[2][i][2]])
    ELSE IF node[1] = "Tuple" THEN SkeletonRefsAll(node[2])
    ELSE IF node[1] = "Ref" THEN 1
    ELSE 0

\* The refs of the model that stand only inside another ref or op definition
InnerRefs == {TCRefId("y"), TCRefId("z")}

NestsRefs == walked \in WalkLeaves \cup WalkFlat

\* C29: Scalar::walk descends only into Map and Tuple nodes: a Ref or Op node
\* is yielded as a leaf and the scalars inside it (key, value, params,
\* branches, cond, closure, state, items, op, bindings) are not yielded, so
\* walk_tcref reports no ref nested inside another ref.
C29_RefsAndOpsAreLeaves ==
    /\ (walker # None /\ walker[1] = "ScalarWalk") =>
           /\ Len(yielded) <= SkeletonSize(walked)
           /\ ended => Len(yielded) = SkeletonSize(walked)
           /\ NestsRefs =>
                  \A i \in 1..Len(yielded) : yielded[i] \notin {ScalarRef(r) : r \in InnerRefs}
    /\ (walker # None /\ walker[1] = "FilterMap") =>
           /\ Len(yielded) <= SkeletonRefs(walked)
           /\ ended => Len(yielded) = SkeletonRefs(walked)
           /\ NestsRefs => \A i \in 1..Len(yielded) : yielded[i] \notin InnerRefs

\* A walk over a tuple of an If with refs in its branches and an op definition
\* with a ref in its form has ended with three items
C29_Witness ==
    /\ walker # None
    /\ walker[1] = "ScalarWalk"
    /\ ended
    /\ walked = ScalarTuple(<<
           ScalarRef(TCRefIf(TCRefId("x"), ScalarRef(TCRefId("y")),
                             ScalarMap(<<<<"a", ScalarRef(TCRefId("z"))>>>>))),
           ScalarOp(OpDefGet("k", <<<<"a", ScalarRef(TCRefId("y"))>>>>))>>)
    /\ Len(yielded) = 3

C29_WitnessRefs ==
    /\ walker # None
    /\ walker[1] = "FilterMap"
    /\ ended
    /\ walked = ScalarTuple(<<
           ScalarRef(TCRefIf(TCRefId("x"), ScalarRef(TCRefId("y")),
                             ScalarMap(<<<<"a", ScalarRef(TCRefId("z"))>>>>))),
           ScalarRef(TCRefId("x"))>>)
    /\ Len(yielded) = 2
    /\ yielded[2] = TCRefId("x")

----------------------------------------------------------------------------
(* Subject and its string form.                                            *)

\* The Subjects that are printed: links of up to MaxPathLen segments, the
\* reserved labels among them, and refs with and without a suffix
PrintedSubjects ==
    {SubjectLink(link) : link \in SeqsUpTo({"a", "b"}, MaxPathLen) \cup ReservedLinks}
        \cup {SubjectRef(id, path) : id \in {"x", "a"}, path \in SeqsUpTo({"a", "b"}, MaxPathLen)}

\* The strings that are parsed
SubjectChars == {"$", "/", "a", "x"}

SubjectStrings == SeqsUpTo(SubjectChars, MaxPathChars)

\* subject.to_string()
PrintSubject(subject) ==
    /\ subjStr = None
    /\ subj' = Some(subject)
    /\ subjStr' = Subject_to_string(subject)
    /\ UNCHANGED subjOut
    /\ UNCHANGED <<earlyVars, walkVars, idVars, claimVars, mapVars>>

\* A string from elsewhere
ReceiveSubject(s) ==
    /\ subjStr = None
    /\ subjStr' = s
    /\ UNCHANGED <<subj, subjOut>>
    /\ UNCHANGED <<earlyVars, walkVars, idVars, claimVars, mapVars>>

\* subject_from_str(&s)
ParseSubject ==
    /\ subjStr # None
    /\ subjOut = None
    /\ subjOut' = Some(subject_from_str(subjStr))
    /\ UNCHANGED <<subj, subjStr>>
    /\ UNCHANGED <<earlyVars, walkVars, idVars, claimVars, mapVars>>

InitSubject ==
    /\ MapIdle
    /\ DirIdle /\ TxnIdle /\ ScalarIdle
    /\ DecodeIdle /\ LibraryIdle /\ ParseIdle /\ HandlerIdle /\ WalkIdle
    /\ SubjectIdle /\ TxnIdIdle /\ ClaimIdle

NextSubject ==
    \/ \E subject \in PrintedSubjects : PrintSubject(subject)
    \/ \E s \in SubjectStrings : ReceiveSubject(s)
    \/ ParseSubject

SpecSubject == InitSubject /\ [][NextSubject]_vars

\* The string has a '/' and i is the place of its first one
FirstSlashAt(s, i) == s[i] = "/" /\ \A j \in 1..(i - 1) : s[j] # "/"

HasSlash(s) == \E i \in 1..Len(s) : s[i] = "/"

\* What C24 says subject_from_str returns for a string
SubjectOf(s) ==
    IF s # <<>> /\ s[1] = "$"
    THEN IF HasSlash(s)
         THEN LET i == CHOOSE i \in 1..Len(s) : FirstSlashAt(s, i)
                  left == SubSeq(s, 1, i - 1)
                  right == SubSeq(s, i, Len(s))
              IN  IF IsOk(IdRef_from_str(left)) /\ IsOk(PathFromStr(right))
                  THEN Ok(SubjectRef(IdRef_from_str(left)[2], PathFromStr(right)[2]))
                  ELSE Err("BadRequest")
         ELSE IF IsOk(IdRef_from_str(s))
              THEN Ok(SubjectRef(IdRef_from_str(s)[2], <<>>))
              ELSE Err("BadRequest")
    ELSE IF IsOk(LinkFromStr(s)) THEN Ok(SubjectLink(LinkFromStr(s)[2]))
    ELSE Err("BadRequest")

\* C24: subject_from_str inverts the string form of a Subject, Ref(id, empty
\* suffix) printing as '$id' and Ref(id, /a/b) as '$id/a/b'; a string that
\* starts with '$' is split at its first '/', the left part read as an IdRef
\* ('$' alone refused) and the right part, slash included, as a path; any
\* other string is read whole as a Link; every failure is a BadRequest.
C24_SubjectStringInverse ==
    /\ (subj # None /\ subj[2][1] = "Ref") =>
           subjStr = <<"$", subj[2][2]>>
                         \o [i \in 1..(2 * Len(subj[2][3])) |->
                                IF i % 2 = 1 THEN "/" ELSE subj[2][3][i \div 2]]
    /\ (subj # None /\ subjOut # None) => subjOut[2] = Ok(subj[2])
    /\ subjOut # None =>
           /\ IsOk(subjOut[2]) => subjOut[2] = SubjectOf(subjStr)
           /\ ~IsOk(subjOut[2]) => ~IsOk(SubjectOf(subjStr)) /\ IsBadRequest(subjOut[2])
    /\ (subjOut # None /\ subjStr \in {<<"$">>, <<"$", "/", "a">>}) => ~IsOk(subjOut[2])

\* A ref with a suffix of two segments has been printed and read back
C24_Witness ==
    /\ subj = Some(SubjectRef("x", <<"a", "b">>))
    /\ subjStr = <<"$", "x", "/", "a", "/", "b">>
    /\ subjOut = Some(Ok(SubjectRef("x", <<"a", "b">>)))

C24_WitnessBare ==
    /\ subj = Some(SubjectRef("x", <<>>))
    /\ subjStr = <<"$", "x">>
    /\ subjOut = Some(Ok(SubjectRef("x", <<>>)))

C24_WitnessDollar ==
    /\ subjStr = <<"$">>
    /\ subjOut # None
    /\ IsBadRequest(subjOut[2])

C24_WitnessNoLink ==
    /\ subjStr = <<"a", "/", "x">>
    /\ subjOut # None
    /\ IsBadRequest(subjOut[2])

----------------------------------------------------------------------------
(* TxnId and its string form.                                              *)

\* The TxnIds that are printed
PrintedIds ==
    {with_trace(TxnId_from_parts(t, n), tr) :
        t \in TxnTimes \cup {0}, n \in Nonces \cup {0}, tr \in Traces}

\* A digit string no u64 holds (2^64 has twenty digits)
TooLong == [i \in 1..(2 * MaxDigits + 3) |-> "1"]

\* What stands before and after the first '-' of the strings that are parsed
TimestampParts ==
    {<<>>, <<"0">>, <<"7">>, <<"0", "7">>, <<"a">>, <<"7", "a">>, ToDecimal(WideMax), TooLong}

NonceParts ==
    {<<>>, <<"0">>, <<"1">>, <<"a">>, <<"1", "-", "2">>, ToDecimal(U16Max),
     ToDecimal(U16Max + 1), ToDecimal(WideMax)}

IdStrings ==
    {ts \o <<"-">> \o nonce : ts \in TimestampParts, nonce \in NonceParts}
        \cup TimestampParts

\* id.to_string()
PrintTxnId(id) ==
    /\ idStr = None
    /\ txnId' = Some(id)
    /\ idStr' = TxnId_to_string(id)
    /\ UNCHANGED idOut
    /\ UNCHANGED <<earlyVars, walkVars, subjVars, claimVars, mapVars>>

\* A string from elsewhere
ReceiveTxnId(s) ==
    /\ idStr = None
    /\ idStr' = s
    /\ UNCHANGED <<txnId, idOut>>
    /\ UNCHANGED <<earlyVars, walkVars, subjVars, claimVars, mapVars>>

\* TxnId::from_str(&s)
ParseTxnId ==
    /\ idStr # None
    /\ idOut = None
    /\ idOut' = Some(TxnId_from_str(idStr))
    /\ UNCHANGED <<txnId, idStr>>
    /\ UNCHANGED <<earlyVars, walkVars, subjVars, claimVars, mapVars>>

InitTxnId ==
    /\ MapIdle
    /\ DirIdle /\ TxnIdle /\ ScalarIdle
    /\ DecodeIdle /\ LibraryIdle /\ ParseIdle /\ HandlerIdle
    /\ WalkIdle /\ SubjectIdle /\ TxnIdIdle /\ ClaimIdle

NextTxnId ==
    \/ \E id \in PrintedIds : PrintTxnId(id)
    \/ \E s \in IdStrings : ReceiveTxnId(s)
    \/ ParseTxnId

SpecTxnId == InitTxnId /\ [][NextTxnId]_vars

HasDash(s) == \E i \in 1..Len(s) : s[i] = "-"

\* What stands before and after the first '-' of a string that has one
BeforeDash(s) ==
    SubSeq(s, 1, (CHOOSE i \in 1..Len(s) : s[i] = "-" /\ ~HasDash(SubSeq(s, 1, i - 1))) - 1)

AfterDash(s) == SubSeq(s, Len(BeforeDash(s)) + 2, Len(s))

\* C25: a TxnId prints as '<timestamp>-<nonce>', the same whatever its trace;
\* parsing the string form gives the same timestamp and nonce and an all-zero
\* trace; a string without '-', with a timestamp that is no u64 or a nonce
\* that is no u16 (above 65535) is refused.
C25_TxnIdString ==
    /\ txnId # None =>
           /\ idStr = ToDecimal(txnId[2].timestamp) \o <<"-">> \o ToDecimal(txnId[2].nonce)
           /\ \A tr \in Traces : TxnId_to_string(with_trace(txnId[2], tr)) = idStr
    /\ (txnId # None /\ idOut # None) =>
           /\ IsOk(idOut[2])
           /\ idOut[2][2].timestamp = txnId[2].timestamp
           /\ idOut[2][2].nonce = txnId[2].nonce
           /\ \A i \in 1..TraceLen : idOut[2][2].trace[i] = 0
    /\ idOut # None =>
           (IsOk(idOut[2]) <=>
               /\ HasDash(idStr)
               /\ IsOk(ParseUnsigned(BeforeDash(idStr), WideMax))
               /\ IsOk(ParseUnsigned(AfterDash(idStr), U16Max)))

\* An id with a trace has been printed and read back without it
C25_Witness ==
    /\ txnId # None
    /\ txnId[2].trace # ZeroTrace
    /\ txnId[2].nonce = U16Max
    /\ idOut # None
    /\ IsOk(idOut[2])
    /\ idOut[2][2].trace = ZeroTrace

C25_WitnessNonce ==
    /\ idStr = <<"7", "-">> \o ToDecimal(U16Max + 1)
    /\ idOut # None
    /\ ~IsOk(idOut[2])

C25_WitnessNoDash ==
    /\ idStr = <<"7">>
    /\ idOut # None
    /\ ~IsOk(idOut[2])

C25_WitnessTimestamp ==
    /\ idStr = <<"7", "a", "-", "1">>
    /\ idOut # None
    /\ ~IsOk(idOut[2])

----------------------------------------------------------------------------
(* The claim on the wire: alone and as a field of a header.                *)

\* claim.serialize(serializer)
SerializeClaim ==
    /\ compact = None
    /\ compact' = Some(Claim_serialize(holder.claim))
    /\ UNCHANGED <<holder, inSerde, inDestream, claimOut>>
    /\ UNCHANGED <<earlyVars, walkVars, subjVars, idVars, mapVars>>

\* Claim::deserialize of what SerializeClaim wrote
DeserializeClaim ==
    /\ compact # None
    /\ claimOut = None
    /\ claimOut' = Some(Claim_deserialize(compact[2]))
    /\ UNCHANGED <<holder, compact, inSerde, inDestream>>
    /\ UNCHANGED <<earlyVars, walkVars, subjVars, idVars, mapVars>>

\* header.serialize(serializer)
SerializeHolder ==
    /\ inSerde = None
    /\ inSerde' = Some(Serialize(holder))
    /\ UNCHANGED <<holder, compact, inDestream, claimOut>>
    /\ UNCHANGED <<earlyVars, walkVars, subjVars, idVars, mapVars>>

\* header.into_stream(encoder)
EncodeHolder ==
    /\ inDestream = None
    /\ inDestream' = Some(into_stream(holder))
    /\ UNCHANGED <<holder, compact, inSerde, claimOut>>
    /\ UNCHANGED <<earlyVars, walkVars, subjVars, idVars, mapVars>>

InitClaim ==
    /\ MapIdle
    /\ DirIdle /\ TxnIdle /\ ScalarIdle
    /\ DecodeIdle /\ LibraryIdle /\ ParseIdle /\ HandlerIdle
    /\ WalkIdle /\ SubjectIdle /\ TxnIdIdle
    /\ holder \in Headers
    /\ compact = None
    /\ inSerde = None
    /\ inDestream = None
    /\ claimOut = None

NextClaim ==
    \/ SerializeClaim
    \/ DeserializeClaim
    \/ SerializeHolder
    \/ EncodeHolder

SpecClaim == InitClaim /\ [][NextClaim]_vars

\* The mask written in a compact claim and in the claim field of a header
MaskOf(pair) == pair[2][2]

ClaimField(header) == header[2][3][2]

\* mask & 0xFFFF
LowBits(mask) == BitAnd(mask, U16Max)

\* C26: only the low 16 bits of the mask of a Claim are written: the mask of
\* the compact 2-tuple and that of the claim field of a TxnHeader equal
\* mask & 0xFFFF, and decoding the compact form gives the same link and
\* mask & 0xFFFF.
C26_LowBitsOnWire ==
    /\ compact # None => MaskOf(compact[2]) = JNum(LowBits(holder.claim.mask))
    /\ inSerde # None => MaskOf(ClaimField(inSerde[2])) = JNum(LowBits(holder.claim.mask))
    /\ inDestream # None =>
           MaskOf(ClaimField(inDestream[2])) = JNum(LowBits(holder.claim.mask))
    /\ claimOut # None =>
           claimOut[2] = Ok(Claim_new(holder.claim.link, LowBits(holder.claim.mask)))

----------------------------------------------------------------------------
(* Map<T>: optional, require and expect_empty.                             *)

NotFound(msg) == <<"NotFound", msg>>

Unexpected(msg) == <<"Unexpected", msg>>

Moved == <<"Moved">>

\* Map::optional: the map after the call and the result
Map_optional(map, name) ==
    LET id == Id_from_str(name)
    IN  IF ~IsOk(id) THEN <<map, Err(BadRequest("invalid map key id"))>>
        ELSE IF BHas(map, id[2]) THEN <<BRemove(map, id[2]), Ok(Some(BGet(map, id[2])))>>
        ELSE <<map, Ok(None)>>

\* Map::require reading the entry without removing it
Map_require_peek(map, name) ==
    LET id == Id_from_str(name)
    IN  IF ~IsOk(id) THEN <<map, Err(BadRequest("invalid map key id"))>>
        ELSE IF BHas(map, id[2]) THEN <<map, Ok(BGet(map, id[2]))>>
        ELSE <<map, Err(NotFound("missing parameter"))>>

\* Map::require: the map after the call and the result
Map_require(map, name) ==
    LET id == Id_from_str(name)
    IN  IF ~IsOk(id) THEN <<map, Err(BadRequest("invalid map key id"))>>
        ELSE IF BHas(map, id[2]) THEN <<BRemove(map, id[2]), Ok(BGet(map, id[2]))>>
        ELSE <<map, Err(NotFound("missing parameter"))>>

\* Map::expect_empty
Map_expect_empty(map) ==
    IF map = <<>> THEN Ok(<<>>) ELSE Err(Unexpected("no parameters"))

\* The calls made on one Map
MaxCalls == 3

\* The maps of the model and the names asked for: present and absent Ids, and
\* names that are no Id
ParamMaps ==
    {<<>>}
        \cup {<<<<k, v>>>> : k \in {"a", "b"}, v \in {1, 2}}
        \cup {<<<<"a", v>>, <<"b", w>>>> : v \in {1, 2}, w \in {1, 2}}

ParamNames == {<<"a">>, <<"b">>, <<"c">>, <<"/", "a">>, <<>>}

\* map.optional(name)
CallOptional(name) ==
    /\ kept # Moved
    /\ Len(calls) < MaxCalls
    /\ LET done == Map_optional(kept, name)
       IN  /\ kept' = done[1]
           /\ calls' = Append(calls, <<"optional", name, done[2], kept>>)
    /\ UNCHANGED <<earlyVars, walkVars, subjVars, idVars, claimVars>>

\* map.require(name)
CallRequire(name) ==
    /\ kept # Moved
    /\ Len(calls) < MaxCalls
    /\ LET done == Map_require(kept, name)
       IN  /\ kept' = done[1]
           /\ calls' = Append(calls, <<"require", name, done[2], kept>>)
    /\ UNCHANGED <<earlyVars, walkVars, subjVars, idVars, claimVars>>

\* map.expect_empty(), which takes the map by value
CallExpectEmpty ==
    /\ kept # Moved
    /\ Len(calls) < MaxCalls
    /\ kept' = Moved
    /\ calls' = Append(calls, <<"expect_empty", <<>>, Map_expect_empty(kept), kept>>)
    /\ UNCHANGED <<earlyVars, walkVars, subjVars, idVars, claimVars>>

InitMap ==
    /\ DirIdle /\ TxnIdle /\ ScalarIdle
    /\ DecodeIdle /\ LibraryIdle /\ ParseIdle /\ HandlerIdle
    /\ WalkIdle /\ SubjectIdle /\ TxnIdIdle /\ ClaimIdle
    /\ kept \in ParamMaps
    /\ calls = <<>>

NextMap ==
    \/ \E name \in ParamNames : CallOptional(name)
    \/ \E name \in ParamNames : CallRequire(name)
    \/ CallExpectEmpty

SpecMap == InitMap /\ [][NextMap]_vars

\* The map as it is after the i-th call
MapAfter(i) == IF i = Len(calls) THEN kept ELSE calls[i + 1][4]

IsIdName(name) == Len(name) = 1 /\ name[1] \notin Delimiters \cup Whitespace

ErrorKind(result) == IF result[1] = "Err" THEN result[2][1] ELSE "none"

\* What C27 says of the i-th call, a require or an optional
TakesEntry(i) ==
    LET fn == calls[i][1]
        name == calls[i][2]
        result == calls[i][3]
        was == calls[i][4]
        now == MapAfter(i)
    IN  IF ~IsIdName(name) THEN ErrorKind(result) = "BadRequest" /\ now = was
        ELSE IF \E j \in 1..Len(was) : was[j][1] = name[1]
        THEN /\ \E j \in 1..Len(was) :
                    /\ was[j][1] = name[1]
                    /\ result = IF fn = "require" THEN Ok(was[j][2]) ELSE Ok(Some(was[j][2]))
             /\ \A j \in 1..Len(now) : now[j][1] # name[1]
             /\ \A j \in 1..Len(was) :
                    was[j][1] # name[1] => \E k \in 1..Len(now) : now[k] = was[j]
             /\ Len(now) = Len(was) - 1
        ELSE /\ IF fn = "require" THEN ErrorKind(result) = "NotFound" ELSE result = Ok(None)
             /\ now = was

\* C27: require(name) and optional(name) remove and return the value under
\* name and leave every other entry as it was; for an absent name require
\* gives NotFound and optional None, the map unchanged, so a second require
\* after a successful one gives NotFound; a name that is no Id gives
\* BadRequest, the map unchanged; expect_empty gives an Unexpected error if
\* and only if entries remain.
C27_RequireOptionalTake ==
    \A i \in 1..Len(calls) :
        /\ calls[i][1] \in {"require", "optional"} => TakesEntry(i)
        /\ (i > 1 /\ calls[i][1] = "require" /\ calls[i - 1][1] = "require"
                /\ calls[i][2] = calls[i - 1][2] /\ IsOk(calls[i - 1][3]))
               => ErrorKind(calls[i][3]) = "NotFound"
        /\ calls[i][1] = "expect_empty" =>
               (ErrorKind(calls[i][3]) = "Unexpected" <=> calls[i][4] # <<>>)
               /\ (IsOk(calls[i][3]) <=> calls[i][4] = <<>>)

\* require("a") has succeeded on a map of two entries, a second require("a")
\* has failed, and expect_empty has then refused the entry that remains
C27_Witness ==
    /\ Len(calls) = 3
    /\ calls[1] = <<"require", <<"a">>, Ok(1), <<<<"a", 1>>, <<"b", 2>>>>>>
    /\ calls[2] = <<"require", <<"a">>, Err(NotFound("missing parameter")), <<<<"b", 2>>>>>>
    /\ calls[3][1] = "expect_empty"
    /\ ErrorKind(calls[3][3]) = "Unexpected"

C27_WitnessOptional ==
    /\ Len(calls) = 3
    /\ calls[1] = <<"optional", <<"b">>, Ok(Some(2)), <<<<"a", 1>>, <<"b", 2>>>>>>
    /\ calls[2][1] = "optional" /\ calls[2][3] = Ok(None) /\ calls[2][2] = <<"c">>
    /\ calls[3] = <<"require", <<"/", "a">>, Err(BadRequest("invalid map key id")), <<<<"a", 1>>>>>>

----------------------------------------------------------------------------
(* The shape of the tree of a Dir.                                         *)

\* Every directory node of a tree has a handler somewhere below it
RECURSIVE NoEmptyDir(_)
NoEmptyDir(entries) ==
    \A i \in 1..Len(entries) :
        entries[i][2][1] = "Dir" =>
            /\ HandlerPaths(entries[i][2][2]) # {}
            /\ NoEmptyDir(entries[i][2][2])

\* The paths of the directory nodes of a tree
RECURSIVE DirPaths(_)
DirPaths(entries) ==
    UNION {LET e == entries[i]
           IN  IF e[2][1] = "Handler" THEN {}
               ELSE {<<e[1]>>} \cup {<<e[1]>> \o rest : rest \in DirPaths(e[2][2])}
           : i \in 1..Len(entries)}

\* C28: after any sequence of insert_segments calls, successful or failed,
\* every directory node has a handler somewhere below it, and a failed
\* insertion leaves the tree as it was before the call: a directory node is
\* made only on a path whose insertion then succeeds.
C28_NoEmptyDirLeftBehind ==
    /\ NoEmptyDir(dir)
    /\ Failed => dir = before
    /\ (Mounted > 0 /\ DirPaths(dir) # DirPaths(before)) =>
           /\ ~Failed
           /\ LastPath \in HandlerPaths(dir)
           /\ \A p \in DirPaths(dir) \ DirPaths(before) : IsProperPrefix(p, LastPath)

\* A mount below a leaf handler has failed on a tree that holds a directory,
\* and the tree is as before
C28_Witness ==
    /\ Mounted = 3
    /\ routes[1][1] = <<"a", "b">>
    /\ routes[2][1] = <<"b">>
    /\ routes[3][1] = <<"b", "a">>
    /\ Failed
    /\ dir = before
    /\ DirPaths(dir) = {<<"a">>}

C28_WitnessMade ==
    /\ Mounted = 2
    /\ ~Failed
    /\ routes[2][1] = <<"a", "b">>
    /\ DirPaths(before) = {}
    /\ DirPaths(dir) = {<<"a">>}

----------------------------------------------------------------------------
(* The two decoders of a reference.                                        *)

\* The Scalar decoder has answered Scalar::Ref
ScalarIsRef == IsOk(asScalar[2]) /\ asScalar[2][2][1] = "Ref"

\* C30: the Scalar decoder and the TCRef decoder agree on references: for
\* every JSON object, decoding it as a TCRef succeeds with r if and only if
\* decoding it as a Scalar gives Scalar::Ref(r); an object {link: []} and an
\* object keyed by /state/scalar/ref/op/get, put or post are classified alike.
C30_DecodersAgreeOnRefs ==
    (asScalar # None /\ asTCRef # None /\ IsObject) =>
        /\ IsOk(asTCRef[2]) <=> ScalarIsRef
        /\ IsOk(asTCRef[2]) => asScalar[2][2] = ScalarRef(asTCRef[2][2])
====
